---- MODULE Spec2Model ----
(***************************************************************************)
(* State-machine model of the SmooAI config resolution core (rust/config): *)
(* merge engine, source loaders, deferred resolver, ConfigManager and      *)
(* LocalConfigManager with their RwLock, lazy initialization and per-tier  *)
(* TTL caches.                                                             *)
(***************************************************************************)
EXTENDS Integers, Sequences, FiniteSets, TLC

(***************************************************************************)
(* serde_json::Value, Option and Result                                    *)
(***************************************************************************)
Null == [t |-> "null", v |-> "null"]
Bool(b) == [t |-> "bool", v |-> b]
Num(n) == [t |-> "num", v |-> n]
\* a Number holding an f64 (serde_json keeps 5.0 distinct from 5)
Float(n) == [t |-> "f64", v |-> n]
Str(s) == [t |-> "str", v |-> s]
Arr(s) == [t |-> "arr", v |-> s]
Obj(m) == [t |-> "obj", v |-> m]

None == [some |-> FALSE]
Some(x) == [some |-> TRUE, val |-> x]

Ok(x) == [ok |-> TRUE, val |-> x]
Err(e) == [ok |-> FALSE, err |-> e]

\* HashMap::new() / serde_json::Map::new()
EmptyMap == [k \in {} |-> Null]

\* HashMap::get
MapGet(m, k) == IF k \in DOMAIN m THEN Some(m[k]) ELSE None

\* HashMap::insert
MapInsert(m, k, x) == [j \in DOMAIN m \cup {k} |-> IF j = k THEN x ELSE m[j]]

\* HashMap::remove
MapRemove(m, k) == [j \in DOMAIN m \ {k} |-> m[j]]

\* Option::unwrap_or
UnwrapOr(o, d) == IF o.some THEN o.val ELSE d

(***************************************************************************)
(* merge.rs                                                                *)
(***************************************************************************)
\* a merge that does not recurse: a key of both mappings takes source's value
RECURSIVE merge_shallow(_, _)
merge_shallow(target, source) ==
    IF source.t = "arr" THEN source
    ELSE IF source.t = "obj" THEN
        LET result == IF target.t = "obj" THEN target.v ELSE EmptyMap
        IN Obj([key \in DOMAIN result \cup DOMAIN source.v |->
                  IF key \in DOMAIN source.v
                  THEN IF key \in DOMAIN result
                       THEN merge_shallow(Null, source.v[key])
                       ELSE source.v[key]
                  ELSE result[key]])
    ELSE source

\* a merge that appends a source array to a target array
RECURSIVE merge_concat_arrays(_, _)
merge_concat_arrays(target, source) ==
    IF source.t = "arr"
    THEN IF target.t = "arr" THEN Arr(target.v \o source.v) ELSE source
    ELSE IF source.t = "obj" THEN
        LET result == IF target.t = "obj" THEN target.v ELSE EmptyMap
        IN Obj([key \in DOMAIN result \cup DOMAIN source.v |->
                  IF key \in DOMAIN source.v
                  THEN IF key \in DOMAIN result
                       THEN merge_concat_arrays(result[key], source.v[key])
                       ELSE source.v[key]
                  ELSE result[key]])
    ELSE source

\* a merge in which a primitive source leaves a target mapping in place
RECURSIVE merge_keeping_mappings(_, _)
merge_keeping_mappings(target, source) ==
    IF source.t = "arr" THEN source
    ELSE IF source.t = "obj" THEN
        LET result == IF target.t = "obj" THEN target.v ELSE EmptyMap
        IN Obj([key \in DOMAIN result \cup DOMAIN source.v |->
                  IF key \in DOMAIN source.v
                  THEN IF key \in DOMAIN result
                       THEN merge_keeping_mappings(result[key], source.v[key])
                       ELSE source.v[key]
                  ELSE result[key]])
    ELSE IF target.t = "obj" THEN target
    ELSE source

\* merge.rs 6-31
RECURSIVE merge_replace_arrays(_, _)
merge_replace_arrays(target, source) ==
    IF source.t = "arr" THEN source
    ELSE IF source.t = "obj" THEN
        LET result == IF target.t = "obj" THEN target.v ELSE EmptyMap
        IN Obj([key \in DOMAIN result \cup DOMAIN source.v |->
                  IF key \in DOMAIN source.v
                  THEN IF key \in DOMAIN result
                       THEN merge_replace_arrays(result[key], source.v[key])
                       ELSE source.v[key]
                  ELSE result[key]])
    ELSE source

(***************************************************************************)
(* utils.rs, cloud_region.rs                                               *)
(***************************************************************************)
\* str::trim().to_lowercase() on the strings the environments below use
TrimLower(s) ==
    CASE s \in {"true", "TRUE", " True "} -> "true"
      [] s \in {"1", " 1"} -> "1"
      [] OTHER -> s

coerce_boolean(value) ==
    LET lower == TrimLower(value)
    IN lower = "true" \/ lower = "1"

get_cloud_region_from_env(env) ==
    IF "SMOOAI_CONFIG_CLOUD_REGION" \in DOMAIN env \/ "SMOOAI_CONFIG_CLOUD_PROVIDER" \in DOMAIN env
    THEN [provider |-> UnwrapOr(MapGet(env, "SMOOAI_CONFIG_CLOUD_PROVIDER"), "unknown"),
          region |-> UnwrapOr(MapGet(env, "SMOOAI_CONFIG_CLOUD_REGION"), "unknown")]
    ELSE IF "AWS_REGION" \in DOMAIN env THEN [provider |-> "aws", region |-> env["AWS_REGION"]]
    ELSE IF "AWS_DEFAULT_REGION" \in DOMAIN env
    THEN [provider |-> "aws", region |-> env["AWS_DEFAULT_REGION"]]
    ELSE IF "AZURE_REGION" \in DOMAIN env THEN [provider |-> "azure", region |-> env["AZURE_REGION"]]
    ELSE IF "AZURE_LOCATION" \in DOMAIN env
    THEN [provider |-> "azure", region |-> env["AZURE_LOCATION"]]
    ELSE IF "GOOGLE_CLOUD_REGION" \in DOMAIN env
    THEN [provider |-> "gcp", region |-> env["GOOGLE_CLOUD_REGION"]]
    ELSE IF "CLOUDSDK_COMPUTE_REGION" \in DOMAIN env
    THEN [provider |-> "gcp", region |-> env["CLOUDSDK_COMPUTE_REGION"]]
    ELSE [provider |-> "unknown", region |-> "unknown"]

\* The four built-in keys both loaders insert last (env_config.rs 86-90, file_config.rs 194-198)
BuiltinKeys == {"ENV", "IS_LOCAL", "REGION", "CLOUD_PROVIDER"}

\* built-in keys that leave a key the map already holds as it is
set_builtin_keys_if_absent(result, env) ==
    LET cloud_region == get_cloud_region_from_env(env)
        env_name == UnwrapOr(MapGet(env, "SMOOAI_CONFIG_ENV"), "development")
        is_local == coerce_boolean(UnwrapOr(MapGet(env, "IS_LOCAL"), ""))
    IN result @@ (("ENV" :> Str(env_name)) @@ ("IS_LOCAL" :> Bool(is_local)) @@
                  ("REGION" :> Str(cloud_region.region)) @@
                  ("CLOUD_PROVIDER" :> Str(cloud_region.provider)))

set_builtin_keys(result, env) ==
    LET cloud_region == get_cloud_region_from_env(env)
        env_name == UnwrapOr(MapGet(env, "SMOOAI_CONFIG_ENV"), "development")
        is_local == coerce_boolean(UnwrapOr(MapGet(env, "IS_LOCAL"), ""))
    IN MapInsert(MapInsert(MapInsert(MapInsert(result,
           "ENV", Str(env_name)),
           "IS_LOCAL", Bool(is_local)),
           "REGION", Str(cloud_region.region)),
           "CLOUD_PROVIDER", Str(cloud_region.provider))

(***************************************************************************)
(* env_config.rs                                                           *)
(***************************************************************************)
\* str::starts_with
starts_with(key, prefix) ==
    Len(key) >= Len(prefix) /\ SubSeq(key, 1, Len(prefix)) = prefix

\* env_config.rs 43-47
key_to_use(key, prefix) ==
    IF prefix # "" /\ starts_with(key, prefix)
    THEN SubSeq(key, Len(prefix) + 1, Len(key))
    ELSE key

\* str::parse::<f64> on the texts the environments below use
ParseF64(s) ==
    IF \E n \in 0..9 : ToString(n) = s
    THEN Some(CHOOSE n \in 0..9 : ToString(n) = s)
    ELSE None

\* serde_json::from_str on the texts the environments below use
JsonTexts ==
    ("{\"x\":\"ex\"}" :> Obj(("x" :> Str("ex")))) @@
    ("[]" :> Arr(<<>>)) @@
    ("true" :> Bool(TRUE)) @@
    ("3" :> Num(3))

ParseJson(s) == IF s \in DOMAIN JsonTexts THEN Ok(JsonTexts[s]) ELSE Err("parse")

\* env_config.rs 53-83: the value one visited variable leaves under its key
coerce_env_value(key, value, schema_types) ==
    LET type_hint == IF schema_types.some THEN MapGet(schema_types.val, key) ELSE None
    IN IF type_hint = Some("boolean") THEN Bool(coerce_boolean(value))
       ELSE IF type_hint = Some("number") /\ ParseF64(value).some
       THEN Float(ParseF64(value).val)
       ELSE IF type_hint \in {Some("json"), Some("object")} /\ ParseJson(value).ok
       THEN ParseJson(value).val
       ELSE Str(value)

\* The set of maps the loader can return: the HashMap is visited in an
\* unspecified order, so when several variables map to one key any of them may
\* be the last one inserted.
find_and_process_env_config_with_env(schema_keys, prefix, schema_types, env) ==
    LET used == {key_to_use(k, prefix) : k \in DOMAIN env} \cap schema_keys
        last == {c \in [used -> DOMAIN env] : \A u \in used : key_to_use(c[u], prefix) = u}
    IN {set_builtin_keys([u \in used |-> coerce_env_value(u, env[c[u]], schema_types)], env) :
           c \in last}

(***************************************************************************)
(* file_config.rs                                                          *)
(***************************************************************************)
CONFIG_DIR_TTL_SECS == 3600

\* PathBuf::join
join(dir, name) == IF dir = "/" THEN "/" \o name ELSE dir \o "/" \o name

\* Path::parent on the directories of the modelled file systems
parent(p) ==
    CASE p = "/w/app/pkg" -> Some("/w/app")
      [] p = "/w/app" -> Some("/w")
      [] p = "/w" -> Some("/")
      [] OTHER -> None

\* file_config.rs 67
candidates == <<".smooai-config", "smooai-config">>

\* file_config.rs 69-78, 93-102: the first candidate that is a directory
first_candidate(fsys, dir) ==
    IF join(dir, candidates[1]) \in fsys.dirs THEN Some(join(dir, candidates[1]))
    ELSE IF join(dir, candidates[2]) \in fsys.dirs THEN Some(join(dir, candidates[2]))
    ELSE None

\* a walk that goes on to the root whatever the limit
RECURSIVE walk_up_unbounded(_, _, _)
walk_up_unbounded(fsys, search_dir, levels) ==
    IF ~parent(search_dir).some THEN None
    ELSE LET p == parent(search_dir).val
         IN IF first_candidate(fsys, p).some THEN first_candidate(fsys, p)
            ELSE walk_up_unbounded(fsys, p, levels)

\* file_config.rs 86-103
RECURSIVE walk_up(_, _, _)
walk_up(fsys, search_dir, levels) ==
    IF levels = 0 \/ ~parent(search_dir).some THEN None
    ELSE LET p == parent(search_dir).val
         IN IF first_candidate(fsys, p).some THEN first_candidate(fsys, p)
            ELSE walk_up(fsys, p, levels - 1)

\* str::parse::<usize>
ParseUsize(s) ==
    IF \E n \in 0..9 : ToString(n) = s
    THEN Some(CHOOSE n \in 0..9 : ToString(n) = s)
    ELSE None

\* Returns the Result and the new content of CONFIG_DIR_CACHE.
find_config_directory_with_env(ignore_cache, env, fsys, cache, clock) ==
    IF "SMOOAI_ENV_CONFIG_DIR" \in DOMAIN env
    THEN IF env["SMOOAI_ENV_CONFIG_DIR"] \in fsys.dirs
         THEN [res |-> Ok(env["SMOOAI_ENV_CONFIG_DIR"]), cache |-> cache]
         ELSE [res |-> Err("SMOOAI_ENV_CONFIG_DIR does not exist"), cache |-> cache]
    ELSE IF /\ ~ignore_cache
            /\ cache.some
            /\ clock - cache.val.at < CONFIG_DIR_TTL_SECS
            /\ cache.val.dir \in fsys.dirs
    THEN [res |-> Ok(cache.val.dir), cache |-> cache]
    ELSE IF first_candidate(fsys, fsys.cwd).some
    THEN [res |-> Ok(first_candidate(fsys, fsys.cwd).val),
          cache |-> Some([dir |-> first_candidate(fsys, fsys.cwd).val, at |-> clock])]
    ELSE LET levels_up_limit ==
                 IF "SMOOAI_CONFIG_LEVELS_UP_LIMIT" \in DOMAIN env
                 THEN UnwrapOr(ParseUsize(env["SMOOAI_CONFIG_LEVELS_UP_LIMIT"]), 5)
                 ELSE 5
             found == walk_up(fsys, fsys.cwd, levels_up_limit)
         IN IF found.some
            THEN [res |-> Ok(found.val), cache |-> Some([dir |-> found.val, at |-> clock])]
            ELSE [res |-> Err("Could not find config directory"), cache |-> cache]

\* a file list with local.json after the environment files
file_list_local_last(env) ==
    LET is_local == coerce_boolean(UnwrapOr(MapGet(env, "IS_LOCAL"), ""))
        env_name == UnwrapOr(MapGet(env, "SMOOAI_CONFIG_ENV"), "development")
        cloud_region == get_cloud_region_from_env(env)
    IN <<"default.json">>
       \o (IF env_name # ""
           THEN <<env_name \o ".json">>
                \o (IF cloud_region.provider # "unknown"
                    THEN <<env_name \o "." \o cloud_region.provider \o ".json">>
                         \o (IF cloud_region.region # "unknown"
                             THEN <<env_name \o "." \o cloud_region.provider \o "."
                                      \o cloud_region.region \o ".json">>
                             ELSE <<>>)
                    ELSE <<>>)
           ELSE <<>>)
       \o (IF is_local THEN <<"local.json">> ELSE <<>>)

\* file_config.rs 141-157
file_list(env) ==
    LET is_local == coerce_boolean(UnwrapOr(MapGet(env, "IS_LOCAL"), ""))
        env_name == UnwrapOr(MapGet(env, "SMOOAI_CONFIG_ENV"), "development")
        cloud_region == get_cloud_region_from_env(env)
    IN <<"default.json">>
       \o (IF is_local THEN <<"local.json">> ELSE <<>>)
       \o (IF env_name # ""
           THEN <<env_name \o ".json">>
                \o (IF cloud_region.provider # "unknown"
                    THEN <<env_name \o "." \o cloud_region.provider \o ".json">>
                         \o (IF cloud_region.region # "unknown"
                             THEN <<env_name \o "." \o cloud_region.provider \o "."
                                      \o cloud_region.region \o ".json">>
                             ELSE <<>>)
                    ELSE <<>>)
           ELSE <<>>)

\* a loop that skips a missing default.json like any optional file
RECURSIVE load_files_default_optional(_, _, _, _, _)
load_files_default_optional(fsys, config_dir, files, i, final_config) ==
    IF i > Len(files) THEN Ok(final_config)
    ELSE LET file_path == join(config_dir, files[i])
         IN IF file_path \notin DOMAIN fsys.files
            THEN load_files_default_optional(fsys, config_dir, files, i + 1, final_config)
            ELSE IF fsys.files[file_path].kind = "unreadable"
            THEN Err("Error reading " \o file_path)
            ELSE IF fsys.files[file_path].kind = "garbage"
            THEN Err("Error parsing " \o file_path)
            ELSE load_files_default_optional(fsys, config_dir, files, i + 1,
                            merge_replace_arrays(final_config, fsys.files[file_path].json))

\* file_config.rs 159-186: the loop over the file list, from file i on
RECURSIVE load_files(_, _, _, _, _)
load_files(fsys, config_dir, files, i, final_config) ==
    IF i > Len(files) THEN Ok(final_config)
    ELSE LET file_path == join(config_dir, files[i])
         IN IF file_path \notin DOMAIN fsys.files
            THEN IF files[i] = "default.json"
                 THEN Err("Required default.json not found")
                 ELSE load_files(fsys, config_dir, files, i + 1, final_config)
            ELSE IF fsys.files[file_path].kind = "unreadable"
            THEN Err("Error reading " \o file_path)
            ELSE IF fsys.files[file_path].kind = "garbage"
            THEN Err("Error parsing " \o file_path)
            ELSE load_files(fsys, config_dir, files, i + 1,
                            merge_replace_arrays(final_config, fsys.files[file_path].json))

\* Returns the Result and the new content of CONFIG_DIR_CACHE.
find_and_process_file_config_with_env(env, fsys, cache, clock) ==
    LET found == find_config_directory_with_env(FALSE, env, fsys, cache, clock)
    IN IF ~found.res.ok THEN found
       ELSE LET loaded == load_files(fsys, found.res.val, file_list(env), 1, Obj(EmptyMap))
            IN IF ~loaded.ok THEN [res |-> loaded, cache |-> found.cache]
               ELSE [res |-> Ok(set_builtin_keys(
                                   IF loaded.val.t = "obj" THEN loaded.val.v ELSE EmptyMap, env)),
                     cache |-> found.cache]

(***************************************************************************)
(* deferred.rs                                                             *)
(***************************************************************************)
\* A DeferredValue closure, applied to the map it is handed.  The closures are
\* those of the repository's tests: format!("{}-a", config[key]),
\* config.contains_key(key), and a copy of config[key].
apply_resolver(resolver, snapshot) ==
    CASE resolver.fn = "suffix" ->
            IF resolver.key \in DOMAIN snapshot /\ snapshot[resolver.key].t = "str"
            THEN Str(snapshot[resolver.key].v \o "-a")
            ELSE Str("-a")
      [] resolver.fn = "has" -> Bool(resolver.key \in DOMAIN snapshot)
      [] OTHER -> UnwrapOr(MapGet(snapshot, resolver.key), Null)

(***************************************************************************)
(* Bounds and the inputs the model draws from                              *)
(***************************************************************************)
\* calls of get_* / invalidate made in one behaviour
MaxCalls == 3
\* clock ticks in one behaviour
MaxTime == 2
\* changes of the remote service's content in one behaviour
MaxUpdates == 1

\* get_public_config / get_secret_config / get_feature_flag
Tiers == {"public", "secret", "feature_flag"}

\* keys the callers ask for; "MISSING" is defined by no source
GetKeys == {"A", "MISSING"}

FileSystem ==
    [cwd |-> "/w/app",
     dirs |-> {"/", "/w", "/w/app", "/cfg", "/empty", "/bad", "/w/smooai-config"},
     files |->
        ("/cfg/default.json" :>
            [kind |-> "json",
             json |-> Obj(("A" :> Str("file-a")) @@
                          ("B" :> Obj(("x" :> Str("fx")) @@ ("y" :> Str("fy")))) @@
                          ("F" :> Arr(<<Str("f1"), Str("f2")>>)))]) @@
        ("/cfg/test.json" :>
            [kind |-> "json", json |-> Obj(("B" :> Obj(("y" :> Str("ty")))))]) @@
        ("/cfg/prod.json" :>
            [kind |-> "json", json |-> Obj(("P" :> Str("prod-p")))]) @@
        ("/bad/default.json" :> [kind |-> "garbage", json |-> Null]) @@
        ("/w/smooai-config/default.json" :>
            [kind |-> "json", json |-> Obj(("G" :> Str("walk-g")))])]

\* environment snapshots (with_env / std::env::vars)
EnvA ==
    ("SMOOAI_ENV_CONFIG_DIR" :> "/cfg") @@ ("SMOOAI_CONFIG_ENV" :> "test") @@ ("A" :> "env-a")
EnvB ==
    ("SMOOAI_ENV_CONFIG_DIR" :> "/cfg") @@ ("SMOOAI_CONFIG_ENV" :> "test")
        @@ ("B" :> "{\"x\":\"ex\"}")
\* a config directory without default.json
EnvEmpty == ("SMOOAI_ENV_CONFIG_DIR" :> "/empty") @@ ("A" :> "env-a")
\* a config directory whose default.json does not parse
EnvBad == ("SMOOAI_ENV_CONFIG_DIR" :> "/bad") @@ ("A" :> "env-a")
\* an override naming a directory that does not exist
EnvNoDir == ("SMOOAI_ENV_CONFIG_DIR" :> "/nope") @@ ("A" :> "env-a")
\* the three remote parameters given by environment variables
EnvCreds ==
    ("SMOOAI_ENV_CONFIG_DIR" :> "/cfg") @@ ("SMOOAI_CONFIG_ENV" :> "test") @@ ("A" :> "env-a")
        @@ ("SMOOAI_CONFIG_API_KEY" :> "env-key") @@ ("SMOOAI_CONFIG_API_URL" :> "http://env-api")
        @@ ("SMOOAI_CONFIG_ORG_ID" :> "env-org")
\* only the base URL given by an environment variable
EnvUrlOnly ==
    ("SMOOAI_ENV_CONFIG_DIR" :> "/cfg") @@ ("SMOOAI_CONFIG_ENV" :> "test") @@ ("A" :> "env-a")
        @@ ("SMOOAI_CONFIG_API_URL" :> "http://env-api")
\* no override: the directory is found by walking up from the working directory
EnvWalk == ("SMOOAI_CONFIG_ENV" :> "test") @@ ("IS_LOCAL" :> "TRUE")

\* EnvWalk with a schema variable that the config file does not define
EnvWalkA == EnvWalk @@ ("A" :> "env-a")

\* what the remote endpoint answers: a transport failure, or a response with
\* its status and its body (None: a body that is not JSON)
SrvFull ==
    [kind |-> "response", status |-> 200,
     body |-> Some(Obj(("values" :> Obj(("A" :> Str("remote-a")) @@
                                        ("B" :> Obj(("x" :> Str("rx")) @@ ("z" :> Str("rz")))) @@
                                        ("F" :> Arr(<<>>)) @@
                                        ("ENV" :> Str("remote-env"))))))]
SrvObj ==
    [kind |-> "response", status |-> 200,
     body |-> Some(Obj(("values" :> Obj(("A" :> Obj(("n" :> Num(1))))))))]
Srv500 ==
    [kind |-> "response", status |-> 500,
     body |-> Some(Obj(("values" :> Obj(("A" :> Str("error-a")))) @@ ("error" :> Str("down"))))]
SrvDown == [kind |-> "transport", status |-> 0, body |-> None]

\* the remote content after the service's operators changed it
ServerAfterUpdate(s) == IF s = SrvFull THEN SrvObj ELSE SrvFull

\* with_deferred registrations
DefNone == EmptyMap
DefChain == ("D" :> [fn |-> "suffix", key |-> "A"]) @@ ("E" :> [fn |-> "has", key |-> "D"])
DefOver == ("A" :> [fn |-> "suffix", key |-> "A"]) @@ ("D" :> [fn |-> "copy", key |-> "A"])

\* ConfigManager::new() followed by with_* builder calls (config_manager.rs 62-150)
ConfigManager_new(ttl, creds, deferred) ==
    [schema_keys |-> Some({"A", "B"}),
     env_prefix |-> "",
     schema_types |-> Some(("B" :> "json")),
     cache_ttl |-> ttl,
     api_key |-> IF creds THEN Some("key") ELSE None,
     base_url |-> IF creds THEN Some("http://api/") ELSE None,
     org_id |-> IF creds THEN Some("org") ELSE None,
     environment |-> None,
     deferred |-> deferred]

\* ConfigManager::new() with each remote parameter and the environment name
\* given (Some) or left out (None) (config_manager.rs 62-150)
ConfigManager_with(ttl, api_key, base_url, org_id, environment, deferred) ==
    [schema_keys |-> Some({"A", "B"}),
     env_prefix |-> "",
     schema_types |-> Some(("B" :> "json")),
     cache_ttl |-> ttl,
     api_key |-> api_key,
     base_url |-> base_url,
     org_id |-> org_id,
     environment |-> environment,
     deferred |-> deferred]

\* LocalConfigManager::new() followed by with_* builder calls (local.rs 45-91)
LocalConfigManager_new(ttl) ==
    [schema_keys |-> Some({"A", "B"}),
     env_prefix |-> "",
     schema_types |-> None,
     cache_ttl |-> ttl]

\* The programs checked: which manager is built, with which fields, shared by
\* which threads, in which environment, against which remote answer.
Programs ==
    { [kind |-> "ConfigManager", threads |-> {"t1", "t2"},
       mgr |-> ConfigManager_new(1, TRUE, DefNone), env |-> EnvA, server |-> SrvFull],
      [kind |-> "ConfigManager", threads |-> {"t1"},
       mgr |-> ConfigManager_new(2, TRUE, DefOver), env |-> EnvA, server |-> SrvFull],
      [kind |-> "ConfigManager", threads |-> {"t1"},
       mgr |-> ConfigManager_new(1, TRUE, DefChain), env |-> EnvB, server |-> SrvFull],
      [kind |-> "ConfigManager", threads |-> {"t1"},
       mgr |-> ConfigManager_new(1, TRUE, DefNone), env |-> EnvB, server |-> SrvObj],
      [kind |-> "ConfigManager", threads |-> {"t1"},
       mgr |-> ConfigManager_new(1, TRUE, DefChain), env |-> EnvA, server |-> SrvObj],
      [kind |-> "ConfigManager", threads |-> {"t1"},
       mgr |-> ConfigManager_new(1, TRUE, DefOver), env |-> EnvEmpty, server |-> Srv500],
      [kind |-> "ConfigManager", threads |-> {"t1"},
       mgr |-> ConfigManager_new(2, TRUE, DefNone), env |-> EnvNoDir, server |-> SrvDown],
      [kind |-> "ConfigManager", threads |-> {"t1"},
       mgr |-> ConfigManager_new(1, FALSE, DefChain), env |-> EnvWalk, server |-> SrvFull],
      [kind |-> "ConfigManager", threads |-> {"t1"},
       mgr |-> ConfigManager_new(1, TRUE, DefNone), env |-> EnvWalk, server |-> Srv500],
      [kind |-> "ConfigManager", threads |-> {"t1"},
       mgr |-> ConfigManager_new(2, FALSE, DefOver), env |-> EnvB, server |-> SrvDown],
      [kind |-> "ConfigManager", threads |-> {"t1"},
       mgr |-> ConfigManager_with(1, Some("key"), Some("http://api/"), Some("org"),
                                  Some("prod"), DefNone),
       env |-> EnvCreds, server |-> SrvFull],
      [kind |-> "ConfigManager", threads |-> {"t1"},
       mgr |-> ConfigManager_with(2, None, None, None, None, DefNone),
       env |-> EnvCreds, server |-> SrvFull],
      [kind |-> "ConfigManager", threads |-> {"t1"},
       mgr |-> ConfigManager_with(2, Some("key"), None, None, None, DefNone),
       env |-> EnvUrlOnly, server |-> SrvFull],
      [kind |-> "ConfigManager", threads |-> {"t1"},
       mgr |-> ConfigManager_new(1, TRUE, DefNone), env |-> EnvBad, server |-> SrvObj],
      [kind |-> "LocalConfigManager", threads |-> {"t1"},
       mgr |-> LocalConfigManager_new(1), env |-> EnvBad, server |-> SrvDown],
      [kind |-> "LocalConfigManager", threads |-> {"t1"},
       mgr |-> LocalConfigManager_new(2), env |-> EnvNoDir, server |-> SrvDown],
      [kind |-> "LocalConfigManager", threads |-> {"t1", "t2"},
       mgr |-> LocalConfigManager_new(1), env |-> EnvA, server |-> SrvDown],
      [kind |-> "LocalConfigManager", threads |-> {"t1"},
       mgr |-> LocalConfigManager_new(2), env |-> EnvWalkA, server |-> SrvDown],
      [kind |-> "LocalConfigManager", threads |-> {"t1"},
       mgr |-> LocalConfigManager_new(1), env |-> EnvEmpty, server |-> SrvDown] }

(***************************************************************************)
(* State                                                                   *)
(***************************************************************************)
VARIABLES
    kind,       \* which manager the program constructed
    mgr,        \* the manager's immutable fields
    env,        \* the environment snapshot (env_override)
    fs,         \* the file system
    server,     \* the remote endpoint's current answer
    dirCache,   \* CONFIG_DIR_CACHE (file_config.rs 15)
    now,        \* Instant::now()
    inner,      \* ConfigManager.inner : RwLock<ManagerInner>
    linner,     \* LocalConfigManager.inner : RwLock<Inner>
    lock,       \* the thread holding the RwLock for writing, or "free"
    pc,         \* where each thread is
    arg,        \* the call each thread is making
    local,      \* initialize_inner's and resolve_deferred's local variables
    calls,      \* calls made so far
    epoch,      \* invalidate() calls completed so far
    updates,    \* changes of the remote content so far
    loadLog,    \* the source loads and cache evictions so far, in order
    requests,   \* the requests sent to the remote endpoint, in order
    loadedFrom, \* the remote answer the current merged config was built from
    hist,       \* every get that returned: key, result, epoch, remote answer
    mTarget,    \* merge_replace_arrays called on its own: the target argument
    mSource,    \* the source argument
    mResult,    \* the value returned, None before the call
    client,     \* a ConfigClient: its fields, cache included
    stored,     \* for each cache key of the client, the (environment, key) pair
                \* whose response wrote the entry
    fileResult  \* find_and_process_file_config_with_env called on its own: the
                \* Result returned, None before the call

vars == <<kind, mgr, env, fs, server, dirCache, now, inner, linner, lock, pc, arg,
          local, calls, epoch, updates, loadLog, requests, loadedFrom, hist,
          mTarget, mSource, mResult, client, stored, fileResult>>

Threads == DOMAIN pc

\* a constructor that marks the manager initialized
ManagerInner_started ==
    [initialized |-> TRUE,
     config |-> EmptyMap,
     public_cache |-> EmptyMap,
     secret_cache |-> EmptyMap,
     feature_flag_cache |-> EmptyMap]

\* ManagerInner as ConfigManager::new() builds it (config_manager.rs 64-70)
ManagerInner_new ==
    [initialized |-> FALSE,
     config |-> EmptyMap,
     public_cache |-> EmptyMap,
     secret_cache |-> EmptyMap,
     feature_flag_cache |-> EmptyMap]

\* Inner as LocalConfigManager::new() builds it (local.rs 47-54)
Inner_new ==
    [initialized |-> FALSE,
     file_config |-> None,
     env_config |-> None,
     public_cache |-> EmptyMap,
     secret_cache |-> EmptyMap,
     feature_flag_cache |-> EmptyMap]

NoLocals ==
    [file_config |-> EmptyMap, env_config |-> EmptyMap, remote_config |-> EmptyMap,
     snapshot |-> EmptyMap, pending |-> {}]

NoArg == [op |-> "none", key |-> "", sel |-> ""]

Init ==
    /\ \E p \in Programs :
          /\ kind = p.kind
          /\ mgr = p.mgr
          /\ env = p.env
          /\ server = p.server
          /\ pc = [t \in p.threads |-> "idle"]
          /\ arg = [t \in p.threads |-> NoArg]
          /\ local = [t \in p.threads |-> NoLocals]
    /\ fs = FileSystem
    /\ dirCache = None
    /\ now = 0
    /\ inner = ManagerInner_new
    /\ linner = Inner_new
    /\ lock = "free"
    /\ calls = 0
    /\ epoch = 0
    /\ updates = 0
    /\ loadLog = <<>>
    /\ requests = <<>>
    /\ loadedFrom = None
    /\ hist = {}
    /\ mTarget = Null
    /\ mSource = Null
    /\ mResult = None
    /\ client = None
    /\ stored = EmptyMap
    /\ fileResult = None

(***************************************************************************)
(* Steps shared by both managers                                           *)
(***************************************************************************)
\* A thread calls get_public_config / get_secret_config / get_feature_flag
CallGet(t, key, sel) ==
    /\ pc[t] = "idle"
    /\ calls < MaxCalls
    /\ calls' = calls + 1
    /\ arg' = [arg EXCEPT ![t] = [op |-> "get", key |-> key, sel |-> sel]]
    /\ pc' = [pc EXCEPT ![t] = "get_lock"]
    /\ UNCHANGED <<mTarget, mSource, mResult, client, stored, fileResult,
                   kind, mgr, env, fs, server, dirCache, now, inner, linner, lock, local,
                   epoch, updates, loadLog, requests, loadedFrom, hist>>

\* A thread calls invalidate()
CallInvalidate(t) ==
    /\ pc[t] = "idle"
    /\ calls < MaxCalls
    /\ calls' = calls + 1
    /\ arg' = [arg EXCEPT ![t] = [op |-> "invalidate", key |-> "", sel |-> ""]]
    /\ pc' = [pc EXCEPT ![t] = "inv_lock"]
    /\ UNCHANGED <<mTarget, mSource, mResult, client, stored, fileResult,
                   kind, mgr, env, fs, server, dirCache, now, inner, linner, lock, local,
                   epoch, updates, loadLog, requests, loadedFrom, hist>>

\* one cache for all three tiers
select_public(tier) == "public_cache"

\* The cache_selector closure each tier's getter hands to get_value
\* (config_manager.rs 302-314, local.rs 170-182): the field it selects
cache_selector(tier) == tier \o "_cache"

\* an initialize_inner without its early return
never_initialized(i) == FALSE

\* The guard of initialize_inner's early return (config_manager.rs 184, local.rs 98)
is_initialized(i) == i.initialized

\* the comparison the wrong way round
is_live_reversed(entry, clock) == clock >= entry.expires_at

\* Instant::now() < entry.expires_at (config_manager.rs 276, local.rs 129)
is_live(entry, clock) == clock < entry.expires_at

\* a lookup that caches the absence of the key too
cache_always(cache, key, value, expires_at) ==
    MapInsert(cache, key, [value |-> IF value.some THEN value.val ELSE Null,
                           expires_at |-> expires_at])

\* get_value, config_manager.rs 286-296 and local.rs 140-164: the cache after
\* the lookup found value (an Option) under key
cache_after_lookup(cache, key, value, expires_at) ==
    IF value.some
    THEN MapInsert(cache, key, [value |-> value.val, expires_at |-> expires_at])
    ELSE cache

\* a lock that excludes nobody
write_lock_always(t) == TRUE

\* RwLock::write: granted when no other thread holds the lock
write_lock_free(t) == lock = "free"

\* self.inner.write() in get_value (config_manager.rs 268-271, local.rs 121-124)
AcquireWrite(t) ==
    /\ pc[t] = "get_lock"
    /\ write_lock_free(t)
    /\ lock' = t
    /\ pc' = [pc EXCEPT ![t] = "check_cache"]
    /\ UNCHANGED <<mTarget, mSource, mResult, client, stored, fileResult,
                   kind, mgr, env, fs, server, dirCache, now, inner, linner, arg, local,
                   calls, epoch, updates, loadLog, requests, loadedFrom, hist>>

\* Time passes.  The managers read the clock only inside get_value (at the
\* cache check and at the cache insert); a tick while a thread holds the lock
\* leaves the same results as a tick just before it took the lock, so the
\* clock is advanced between critical sections only.
Tick ==
    /\ now < MaxTime
    /\ lock = "free"
    /\ now' = now + 1
    /\ UNCHANGED <<mTarget, mSource, mResult, client, stored, fileResult,
                   kind, mgr, env, fs, server, dirCache, inner, linner, lock, pc, arg, local,
                   calls, epoch, updates, loadLog, requests, loadedFrom, hist>>

\* The remote service's content changes (between critical sections, as Tick)
ServerUpdate ==
    /\ kind = "ConfigManager"
    /\ updates < MaxUpdates
    /\ lock = "free"
    /\ updates' = updates + 1
    /\ server' = ServerAfterUpdate(server)
    /\ UNCHANGED <<mTarget, mSource, mResult, client, stored, fileResult,
                   kind, mgr, env, fs, dirCache, now, inner, linner, lock, pc, arg, local,
                   calls, epoch, loadLog, requests, loadedFrom, hist>>

\* The call returns result and its lock guard is dropped
Return(t, result) ==
    /\ lock' = IF lock = t THEN "free" ELSE lock
    /\ pc' = [pc EXCEPT ![t] = "idle"]
    /\ arg' = [arg EXCEPT ![t] = NoArg]
    /\ local' = [local EXCEPT ![t] = NoLocals]
    /\ hist' = IF arg[t].op = "get"
               THEN hist \cup {[key |-> arg[t].key, res |-> result, epoch |-> epoch,
                                from |-> loadedFrom]}
               ELSE hist

(***************************************************************************)
(* ConfigManager (config_manager.rs)                                       *)
(***************************************************************************)
\* config_manager.rs 156-162
get_env_var(key) == MapGet(env, key)

\* config_manager.rs 164-172
resolve_environment ==
    IF mgr.environment.some THEN mgr.environment.val
    ELSE IF get_env_var("SMOOAI_CONFIG_ENV").some THEN get_env_var("SMOOAI_CONFIG_ENV").val
    ELSE "development"

\* a resolution that lets the environment variable win over the constructor
resolve_param_env_first(env_var, constructor_value) ==
    IF get_env_var(env_var).some THEN get_env_var(env_var) ELSE constructor_value

\* config_manager.rs 174-181
resolve_param(env_var, constructor_value) ==
    IF constructor_value.some THEN constructor_value ELSE get_env_var(env_var)

\* str::trim_end_matches('/')
RECURSIVE trim_end_slash(_)
trim_end_slash(url) ==
    IF Len(url) > 0 /\ SubSeq(url, Len(url), Len(url)) = "/"
    THEN trim_end_slash(SubSeq(url, 1, Len(url) - 1))
    ELSE url

\* a fetch that reads the body whatever the status
remote_values_any_status(response) ==
    IF /\ response.kind = "response"
       /\ response.body.some
       /\ response.body.val.t = "obj"
       /\ "values" \in DOMAIN response.body.val.v
       /\ response.body.val.v["values"].t = "obj"
    THEN response.body.val.v["values"].v
    ELSE EmptyMap

\* config_manager.rs 219-237: the map the response leaves in remote_config
remote_values(response) ==
    IF /\ response.kind = "response"
       /\ response.status >= 200 /\ response.status < 300
       /\ response.body.some
       /\ response.body.val.t = "obj"
       /\ "values" \in DOMAIN response.body.val.v
       /\ response.body.val.v["values"].t = "obj"
    THEN response.body.val.v["values"].v
    ELSE EmptyMap

\* the fold with the environment variables merged first
merge_env_lowest(file_config, remote_config, env_config) ==
    merge_replace_arrays(
        merge_replace_arrays(
            merge_replace_arrays(Obj(EmptyMap), Obj(env_config)),
            Obj(file_config)),
        Obj(remote_config))

\* the merged map as it is before the environment variables are merged in
merge_before_env(file_config, remote_config, env_config) ==
    merge_replace_arrays(
        merge_replace_arrays(Obj(EmptyMap), Obj(file_config)),
        Obj(remote_config))

\* config_manager.rs 241-247: file < remote < env
merge_sources(file_config, remote_config, env_config) ==
    merge_replace_arrays(
        merge_replace_arrays(
            merge_replace_arrays(Obj(EmptyMap), Obj(file_config)),
            Obj(remote_config)),
        Obj(env_config))

\* a pass that fetches the remote values before it reads the environment
next_load_remote_first(step) ==
    CASE step = "file" -> "fetch_remote"
      [] step = "remote" -> "load_env"
      [] OTHER -> "merge"

\* initialize_inner, config_manager.rs 190-238: what follows each load: the file
\* load, then the env load, then the remote fetch, then the merge
next_load(step) ==
    CASE step = "file" -> "load_env"
      [] step = "env" -> "fetch_remote"
      [] OTHER -> "merge"

\* a fallback that is not empty
unwrap_or_fallback(result) ==
    IF result.ok THEN result.val ELSE ("ENV" :> Str("development"))

\* Result::unwrap_or_default on the file loader's result (config_manager.rs 191)
unwrap_or_default(result) == IF result.ok THEN result.val ELSE EmptyMap

\* get_value, config_manager.rs 273-280: the cache check
CheckCache(t) ==
    /\ kind = "ConfigManager"
    /\ pc[t] = "check_cache"
    /\ LET sel == cache_selector(arg[t].sel)
           cache == inner[sel]
           key == arg[t].key
       IN IF key \in DOMAIN cache /\ is_live(cache[key], now)
          THEN /\ Return(t, Ok(Some(cache[key].value)))
               /\ UNCHANGED <<inner, loadLog>>
          ELSE /\ IF key \in DOMAIN cache
                  THEN /\ inner' = [inner EXCEPT ![sel] = MapRemove(cache, key)]
                       /\ loadLog' = Append(loadLog, "evict")
                  ELSE UNCHANGED <<inner, loadLog>>
               /\ pc' = [pc EXCEPT ![t] = "initialize"]
               /\ UNCHANGED <<lock, arg, local, hist>>
    /\ UNCHANGED <<mTarget, mSource, mResult, client, stored, fileResult,
                   kind, mgr, env, fs, server, dirCache, now, linner, calls, epoch,
                   updates, requests, loadedFrom>>

\* initialize_inner, config_manager.rs 184-191: the early return, else the file load
LoadFile(t) ==
    /\ kind = "ConfigManager"
    /\ pc[t] = "initialize"
    /\ IF is_initialized(inner)
       THEN /\ pc' = [pc EXCEPT ![t] = "lookup"]
            /\ UNCHANGED <<local, dirCache, loadLog>>
       ELSE LET loaded == find_and_process_file_config_with_env(env, fs, dirCache, now)
            IN /\ local' = [local EXCEPT ![t].file_config = unwrap_or_default(loaded.res)]
               /\ dirCache' = loaded.cache
               /\ loadLog' = Append(loadLog, "file")
               /\ pc' = [pc EXCEPT ![t] = next_load("file")]
    /\ UNCHANGED <<mTarget, mSource, mResult, client, stored, fileResult,
                   kind, mgr, env, fs, server, now, inner, linner, lock, arg, calls,
                   epoch, updates, requests, loadedFrom, hist>>

\* initialize_inner, config_manager.rs 194-196
LoadEnv(t) ==
    /\ kind = "ConfigManager"
    /\ pc[t] = "load_env"
    /\ \E env_config \in find_and_process_env_config_with_env(
                             UnwrapOr(mgr.schema_keys, {}), mgr.env_prefix, mgr.schema_types, env) :
          local' = [local EXCEPT ![t].env_config = env_config]
    /\ loadLog' = Append(loadLog, "env")
    /\ pc' = [pc EXCEPT ![t] = next_load("env")]
    /\ UNCHANGED <<mTarget, mSource, mResult, client, stored, fileResult,
                   kind, mgr, env, fs, server, dirCache, now, inner, linner, lock, arg,
                   calls, epoch, updates, requests, loadedFrom, hist>>

\* initialize_inner, config_manager.rs 199-238
FetchRemote(t) ==
    /\ kind = "ConfigManager"
    /\ pc[t] = "fetch_remote"
    /\ LET api_key == resolve_param("SMOOAI_CONFIG_API_KEY", mgr.api_key)
           base_url == resolve_param("SMOOAI_CONFIG_API_URL", mgr.base_url)
           org_id == resolve_param("SMOOAI_CONFIG_ORG_ID", mgr.org_id)
       IN IF api_key.some /\ base_url.some /\ org_id.some
          THEN /\ requests' = Append(requests,
                      [base |-> trim_end_slash(base_url.val), org |-> org_id.val,
                       environment |-> resolve_environment, bearer |-> api_key.val])
               /\ loadLog' = Append(loadLog, "remote")
               /\ local' = [local EXCEPT ![t].remote_config = remote_values(server)]
          ELSE /\ local' = [local EXCEPT ![t].remote_config = EmptyMap]
               /\ UNCHANGED <<requests, loadLog>>
    /\ loadedFrom' = Some(server)
    /\ pc' = [pc EXCEPT ![t] = next_load("remote")]
    /\ UNCHANGED <<mTarget, mSource, mResult, client, stored, fileResult,
                   kind, mgr, env, fs, server, dirCache, now, inner, linner, lock, arg,
                   calls, epoch, updates, hist>>

\* initialize_inner, config_manager.rs 241-257, with resolve_deferred's
\* snapshot (deferred.rs 21)
Merge(t) ==
    /\ kind = "ConfigManager"
    /\ pc[t] = "merge"
    /\ LET merged == merge_sources(local[t].file_config, local[t].remote_config,
                                   local[t].env_config)
       IN /\ inner' = [inner EXCEPT !.config = merged.v]
          /\ IF mgr.deferred # EmptyMap
             THEN /\ local' = [local EXCEPT ![t].snapshot = merged.v,
                                            ![t].pending = DOMAIN mgr.deferred]
                  /\ pc' = [pc EXCEPT ![t] = "resolve_deferred"]
             ELSE /\ pc' = [pc EXCEPT ![t] = "initialized"]
                  /\ UNCHANGED local
    /\ UNCHANGED <<mTarget, mSource, mResult, client, stored, fileResult,
                   kind, mgr, env, fs, server, dirCache, now, linner, lock, arg, calls,
                   epoch, updates, loadLog, requests, loadedFrom, hist>>

\* resolvers called with the map being written
resolver_sees_config(t) == inner.config

\* deferred.rs 25: the map a resolver is called with
resolver_input(t) == local[t].snapshot

\* an insert that keeps the value a key already has
config_insert_if_absent(config, key, resolved) ==
    IF key \in DOMAIN config THEN config ELSE MapInsert(config, key, resolved)

\* config.insert(key.clone(), resolved) (deferred.rs 26)
config_insert(config, key, resolved) == MapInsert(config, key, resolved)

\* resolve_deferred, deferred.rs 24-27: one iteration of the loop, over the
\* registered closures in the HashMap's unspecified order
ResolveDeferred(t) ==
    /\ kind \in {"ConfigManager", "resolve_deferred"}
    /\ pc[t] = "resolve_deferred"
    /\ \E key \in local[t].pending :
          LET resolved == apply_resolver(mgr.deferred[key], resolver_input(t))
          IN /\ inner' = [inner EXCEPT !.config = config_insert(inner.config, key, resolved)]
             /\ local' = [local EXCEPT ![t].pending = local[t].pending \ {key}]
             /\ pc' = [pc EXCEPT ![t] = IF local[t].pending = {key}
                                        THEN "initialized" ELSE "resolve_deferred"]
    /\ UNCHANGED <<mTarget, mSource, mResult, client, stored, fileResult,
                   kind, mgr, env, fs, server, dirCache, now, linner, lock, arg, calls,
                   epoch, updates, loadLog, requests, loadedFrom, hist>>

\* initialize_inner, config_manager.rs 259-260
SetInitialized(t) ==
    /\ kind = "ConfigManager"
    /\ pc[t] = "initialized"
    /\ inner' = [inner EXCEPT !.initialized = TRUE]
    /\ pc' = [pc EXCEPT ![t] = "lookup"]
    /\ UNCHANGED <<mTarget, mSource, mResult, client, stored, fileResult,
                   kind, mgr, env, fs, server, dirCache, now, linner, lock, arg, local,
                   calls, epoch, updates, loadLog, requests, loadedFrom, hist>>

\* get_value, config_manager.rs 286-298
Lookup(t) ==
    /\ kind = "ConfigManager"
    /\ pc[t] = "lookup"
    /\ LET value == MapGet(inner.config, arg[t].key)
           sel == cache_selector(arg[t].sel)
       IN /\ inner' = [inner EXCEPT ![sel] =
                          cache_after_lookup(inner[sel], arg[t].key, value,
                                             now + mgr.cache_ttl)]
          /\ Return(t, Ok(value))
    /\ UNCHANGED <<mTarget, mSource, mResult, client, stored, fileResult,
                   kind, mgr, env, fs, server, dirCache, now, linner, calls, epoch,
                   updates, loadLog, requests, loadedFrom>>

\* an invalidate that forgets the secret and feature-flag caches
invalidated_keeping_caches(i) ==
    [i EXCEPT !.initialized = FALSE,
              !.config = EmptyMap,
              !.public_cache = EmptyMap]

\* an invalidate that empties the caches and keeps the merged config
invalidated_still_initialized(i) ==
    [i EXCEPT !.public_cache = EmptyMap,
              !.secret_cache = EmptyMap,
              !.feature_flag_cache = EmptyMap]

\* invalidate, config_manager.rs 319-323: the fields it writes
invalidated(i) ==
    [i EXCEPT !.initialized = FALSE,
              !.config = EmptyMap,
              !.public_cache = EmptyMap,
              !.secret_cache = EmptyMap,
              !.feature_flag_cache = EmptyMap]

\* invalidate, config_manager.rs 317-325
Invalidate(t) ==
    /\ kind = "ConfigManager"
    /\ pc[t] = "inv_lock"
    /\ write_lock_free(t)
    /\ inner' = invalidated(inner)
    /\ epoch' = epoch + 1
    /\ Return(t, Ok(None))
    /\ UNCHANGED <<mTarget, mSource, mResult, client, stored, fileResult,
                   kind, mgr, env, fs, server, dirCache, now, linner, calls, updates,
                   loadLog, requests, loadedFrom>>

(***************************************************************************)
(* LocalConfigManager (local.rs)                                           *)
(***************************************************************************)
\* get_value, local.rs 126-133: the cache check
LocalCheckCache(t) ==
    /\ kind = "LocalConfigManager"
    /\ pc[t] = "check_cache"
    /\ LET sel == cache_selector(arg[t].sel)
           cache == linner[sel]
           key == arg[t].key
       IN IF key \in DOMAIN cache /\ is_live(cache[key], now)
          THEN /\ Return(t, Ok(Some(cache[key].value)))
               /\ UNCHANGED <<linner, loadLog>>
          ELSE /\ IF key \in DOMAIN cache
                  THEN /\ linner' = [linner EXCEPT ![sel] = MapRemove(cache, key)]
                       /\ loadLog' = Append(loadLog, "evict")
                  ELSE UNCHANGED <<linner, loadLog>>
               /\ pc' = [pc EXCEPT ![t] = "initialize"]
               /\ UNCHANGED <<lock, arg, local, hist>>
    /\ UNCHANGED <<mTarget, mSource, mResult, client, stored, fileResult,
                   kind, mgr, env, fs, server, dirCache, now, inner, calls, epoch,
                   updates, requests, loadedFrom>>

\* an initialize_inner that sets the flag before the file load can fail
local_after_initialize_marked(i, file_result, env_config) ==
    IF file_result.ok
    THEN [i EXCEPT !.file_config = Some(file_result.val),
                   !.env_config = Some(env_config),
                   !.initialized = TRUE]
    ELSE [i EXCEPT !.initialized = TRUE]

\* initialize_inner, local.rs 104-111: Inner after the pass; the ? of line 104
\* returns before anything is assigned
local_after_initialize(i, file_result, env_config) ==
    IF file_result.ok
    THEN [i EXCEPT !.file_config = Some(file_result.val),
                   !.env_config = Some(env_config),
                   !.initialized = TRUE]
    ELSE i

\* initialize_inner, local.rs 97-114, and the ? of local.rs 136
LocalInitialize(t) ==
    /\ kind = "LocalConfigManager"
    /\ pc[t] = "initialize"
    /\ IF is_initialized(linner)
       THEN /\ pc' = [pc EXCEPT ![t] = "lookup"]
            /\ UNCHANGED <<linner, dirCache, loadLog, lock, arg, local, hist>>
       ELSE LET loaded == find_and_process_file_config_with_env(env, fs, dirCache, now)
            IN /\ dirCache' = loaded.cache
               /\ IF ~loaded.res.ok
                  THEN /\ loadLog' = Append(loadLog, "file")
                       /\ linner' = local_after_initialize(linner, loaded.res, EmptyMap)
                       /\ Return(t, loaded.res)
                  ELSE /\ \E env_config \in find_and_process_env_config_with_env(
                                 UnwrapOr(mgr.schema_keys, {}), mgr.env_prefix,
                                 mgr.schema_types, env) :
                             linner' = local_after_initialize(linner, loaded.res, env_config)
                       /\ loadLog' = loadLog \o <<"file", "env">>
                       /\ pc' = [pc EXCEPT ![t] = "lookup"]
                       /\ UNCHANGED <<lock, arg, local, hist>>
    /\ UNCHANGED <<mTarget, mSource, mResult, client, stored, fileResult,
                   kind, mgr, env, fs, server, now, inner, calls, epoch, updates,
                   requests, loadedFrom>>

\* a lookup that asks the env config first
local_lookup_env_first(i, key) ==
    LET file_value == IF i.file_config.some THEN MapGet(i.file_config.val, key) ELSE None
        env_value == IF i.env_config.some THEN MapGet(i.env_config.val, key) ELSE None
    IN IF env_value.some THEN env_value ELSE file_value

\* get_value, local.rs 138-166: file config first, then env config
local_lookup(i, key) ==
    LET file_value == IF i.file_config.some THEN MapGet(i.file_config.val, key) ELSE None
        env_value == IF i.env_config.some THEN MapGet(i.env_config.val, key) ELSE None
    IN IF file_value.some THEN file_value ELSE env_value

\* get_value, local.rs 138-166
LocalLookup(t) ==
    /\ kind = "LocalConfigManager"
    /\ pc[t] = "lookup"
    /\ LET value == local_lookup(linner, arg[t].key)
           sel == cache_selector(arg[t].sel)
       IN /\ linner' = [linner EXCEPT ![sel] =
                           cache_after_lookup(linner[sel], arg[t].key, value,
                                              now + mgr.cache_ttl)]
          /\ Return(t, Ok(value))
    /\ UNCHANGED <<mTarget, mSource, mResult, client, stored, fileResult,
                   kind, mgr, env, fs, server, dirCache, now, inner, calls, epoch,
                   updates, loadLog, requests, loadedFrom>>

\* invalidate, local.rs 187-192: the fields it writes
local_invalidated(i) ==
    [i EXCEPT !.initialized = FALSE,
              !.file_config = None,
              !.env_config = None,
              !.public_cache = EmptyMap,
              !.secret_cache = EmptyMap,
              !.feature_flag_cache = EmptyMap]

\* invalidate, local.rs 185-194
LocalInvalidate(t) ==
    /\ kind = "LocalConfigManager"
    /\ pc[t] = "inv_lock"
    /\ write_lock_free(t)
    /\ linner' = local_invalidated(linner)
    /\ epoch' = epoch + 1
    /\ Return(t, Ok(None))
    /\ UNCHANGED <<mTarget, mSource, mResult, client, stored, fileResult,
                   kind, mgr, env, fs, server, dirCache, now, inner, calls, updates,
                   loadLog, requests, loadedFrom>>

(***************************************************************************)
(* The program                                                             *)
(***************************************************************************)
Next ==
    \/ \E t \in Threads, key \in GetKeys, sel \in Tiers : CallGet(t, key, sel)
    \/ \E t \in Threads : CallInvalidate(t)
    \/ \E t \in Threads : AcquireWrite(t)
    \/ Tick
    \/ ServerUpdate
    \/ \E t \in Threads : CheckCache(t)
    \/ \E t \in Threads : LoadFile(t)
    \/ \E t \in Threads : LoadEnv(t)
    \/ \E t \in Threads : FetchRemote(t)
    \/ \E t \in Threads : Merge(t)
    \/ \E t \in Threads : ResolveDeferred(t)
    \/ \E t \in Threads : SetInitialized(t)
    \/ \E t \in Threads : Lookup(t)
    \/ \E t \in Threads : Invalidate(t)
    \/ \E t \in Threads : LocalCheckCache(t)
    \/ \E t \in Threads : LocalInitialize(t)
    \/ \E t \in Threads : LocalLookup(t)
    \/ \E t \in Threads : LocalInvalidate(t)

(***************************************************************************)
(* merge_replace_arrays on its own: one call on a pair of values           *)
(***************************************************************************)
\* the nesting depth of the mappings merged
MergeDepth == 2

\* null, a number, the empty array and a non-empty array (merge.rs 54-76)
MergeLeaves == {Null, Num(1), Arr(<<>>), Arr(<<Num(2)>>)}

\* a mapping over keys "a" and "b": either key may be absent
MergeObjects(as, bs) ==
    {Obj(EmptyMap)}
    \cup {Obj([k \in {"a"} |-> x]) : x \in as}
    \cup {Obj([k \in {"b"} |-> y]) : y \in bs}
    \cup {Obj([k \in {"a", "b"} |-> IF k = "a" THEN p[1] ELSE p[2]]) : p \in as \X bs}

\* the values of nesting depth at most d (merge.rs 79-165: flat, nested and
\* deeply nested objects, arrays and primitives inside objects)
RECURSIVE MergeValues(_)
MergeValues(d) ==
    IF d = 0 THEN MergeLeaves
    ELSE MergeLeaves \cup MergeObjects(MergeValues(d - 1), MergeLeaves)

\* a caller about to call merge_replace_arrays(&target, &source)
MergeInit ==
    /\ mTarget \in MergeValues(MergeDepth)
    /\ mSource \in MergeValues(MergeDepth)
    /\ mResult = None
    /\ client = None
    /\ stored = EmptyMap
    /\ fileResult = None
    /\ kind = "merge"
    /\ mgr = None
    /\ env = EmptyMap
    /\ server = SrvDown
    /\ pc = <<>>
    /\ arg = <<>>
    /\ local = <<>>
    /\ fs = FileSystem
    /\ dirCache = None
    /\ now = 0
    /\ inner = ManagerInner_new
    /\ linner = Inner_new
    /\ lock = "free"
    /\ calls = 0
    /\ epoch = 0
    /\ updates = 0
    /\ loadLog = <<>>
    /\ requests = <<>>
    /\ loadedFrom = None
    /\ hist = {}

\* the call and its return value
MergeApply ==
    /\ kind = "merge"
    /\ mResult = None
    /\ mResult' = Some(merge_replace_arrays(mTarget, mSource))
    /\ UNCHANGED <<mTarget, mSource, client, stored, fileResult, kind, mgr, env, fs, server, dirCache, now, inner,
                   linner, lock, pc, arg, local, calls, epoch, updates, loadLog,
                   requests, loadedFrom, hist>>

MergeNext == MergeApply

MergeSpec == MergeInit /\ [][MergeNext]_vars

Spec == Init /\ [][Next]_vars

(***************************************************************************)
(* client.rs: ConfigClient, a single-owner (&mut self) client with one     *)
(* cache keyed by "{env}:{key}"                                            *)
(***************************************************************************)
\* the environment names and config keys the caller uses
ClientEnvNames == {"a", "a:b"}
ClientKeys == {"c", "b:c"}

\* the environment argument of get_value / get_all_values: Option<&str>
EnvironmentArgs == {None, Some("a:b")}

\* utf8_percent_encode(key, PATH_SEGMENT_ENCODE_SET): of the characters used
\* here the set holds ':' and '%'
RECURSIVE utf8_percent_encode(_)
utf8_percent_encode(key) ==
    IF key = "" THEN ""
    ELSE LET ch == SubSeq(key, 1, 1)
             rest == utf8_percent_encode(SubSeq(key, 2, Len(key)))
         IN IF ch = ":" THEN "%3A" \o rest
            ELSE IF ch = "%" THEN "%25" \o rest
            ELSE ch \o rest

\* the server's decoding of a path segment
RECURSIVE percent_decode(_)
percent_decode(segment) ==
    IF segment = "" THEN ""
    ELSE IF Len(segment) >= 3 /\ SubSeq(segment, 1, 3) = "%3A"
    THEN ":" \o percent_decode(SubSeq(segment, 4, Len(segment)))
    ELSE IF Len(segment) >= 3 /\ SubSeq(segment, 1, 3) = "%25"
    THEN "%" \o percent_decode(SubSeq(segment, 4, Len(segment)))
    ELSE SubSeq(segment, 1, 1) \o percent_decode(SubSeq(segment, 2, Len(segment)))

\* ConfigClient::with_environment (client.rs 73-90)
ConfigClient_with_environment(base_url, api_key, org_id, environment) ==
    [base_url |-> trim_end_slash(base_url),
     org_id |-> org_id,
     default_environment |-> environment,
     cache_ttl |-> None,
     bearer |-> api_key,
     cache |-> EmptyMap]

\* set_cache_ttl (client.rs 93-95)
set_cache_ttl(c, ttl) == [c EXCEPT !.cache_ttl = ttl]

\* resolve_env (client.rs 112-117)
resolve_env(c, environment) ==
    IF environment.some /\ environment.val # "" THEN environment.val
    ELSE c.default_environment

\* compute_expires_at (client.rs 119-121)
compute_expires_at(c, clock) ==
    IF c.cache_ttl.some THEN Some(clock + c.cache_ttl.val) ELSE None

\* a lookup that never finds an entry
get_cached_disabled(c, cache_key, clock) == None

\* a lookup that does not look at expires_at
get_cached_ignoring_expiry(c, cache_key, clock) ==
    IF cache_key \notin DOMAIN c.cache THEN None
    ELSE Some(c.cache[cache_key].value)

\* get_cached (client.rs 123-131)
get_cached(c, cache_key, clock) ==
    IF cache_key \notin DOMAIN c.cache THEN None
    ELSE LET entry == c.cache[cache_key]
         IN IF entry.expires_at.some /\ clock > entry.expires_at.val
            THEN None
            ELSE Some(entry.value)

\* format!("{}:{}", env, key) (client.rs 141, 196)
format_cache_key(environment, key) == environment \o ":" \o key

\* the config server: what it holds for a key of an environment after a number
\* of changes of its content
ServerValue(environment, key, version) ==
    Str(environment \o "/" \o key \o "#" \o ToString(version))

\* the answers of the server: 200 with the documented body, an error status
\* with an error body, an error status with a body of the documented shape,
\* and no answer at all
ClientSrvOk == [kind |-> "response", status |-> 200, body |-> "documented"]
ClientSrv500 == [kind |-> "response", status |-> 500, body |-> "error"]
ClientSrv404Value == [kind |-> "response", status |-> 404, body |-> "documented"]
ClientSrvDown == [kind |-> "transport", status |-> 0, body |-> "none"]
ClientServers == {ClientSrvOk, ClientSrv500, ClientSrv404Value, ClientSrvDown}

\* GET {base}/organizations/{org}/config/values/{key}?environment={env}
value_response(srv, version, request) ==
    IF srv.kind = "transport" THEN Err("transport")
    ELSE Ok([status |-> srv.status,
             json |-> IF srv.body = "documented"
                      THEN Obj(("value" :> ServerValue(request.environment,
                                                       percent_decode(request.key), version)))
                      ELSE Obj(("error" :> Str("error")))])

\* GET {base}/organizations/{org}/config/values?environment={env}
values_response(srv, version, request) ==
    IF srv.kind = "transport" THEN Err("transport")
    ELSE Ok([status |-> srv.status,
             json |-> IF srv.body = "documented"
                      THEN Obj(("values" :>
                                Obj([k \in ClientKeys |->
                                        ServerValue(request.environment, k, version)])))
                      ELSE Obj(("error" :> Str("error")))])

\* .send().await?.json().await? into ValueResponse (client.rs 149-160): a
\* transport error or a body without "value" is the error; the status is not
\* looked at
receive_value(response) ==
    IF ~response.ok THEN response
    ELSE IF "value" \in DOMAIN response.val.json.v
    THEN Ok(response.val.json.v["value"])
    ELSE Err("decode")

\* .send().await?.json().await? into ValuesResponse (client.rs 186-193)
receive_values(response) ==
    IF ~response.ok THEN response
    ELSE IF "values" \in DOMAIN response.val.json.v
            /\ response.val.json.v["values"].t = "obj"
    THEN Ok(response.val.json.v["values"].v)
    ELSE Err("decode")

\* the loop of get_all_values (client.rs 195-204)
insert_all(cache, environment, values, expires_at) ==
    [ck \in DOMAIN cache \cup {format_cache_key(environment, k) : k \in DOMAIN values} |->
        IF \E k \in DOMAIN values : ck = format_cache_key(environment, k)
        THEN [value |-> values[CHOOSE k \in DOMAIN values :
                                  ck = format_cache_key(environment, k)],
              expires_at |-> expires_at]
        ELSE cache[ck]]

\* HashMap::retain(|key, _| !key.starts_with(&prefix)) (client.rs 215-216)
retain_other(cache, environment) ==
    LET prefix == environment \o ":"
    IN [ck \in {k \in DOMAIN cache : ~starts_with(k, prefix)} |-> cache[ck]]

\* clients as the tests build them: with_environment, then set_cache_ttl
ClientPrograms ==
    {[client |-> set_cache_ttl(ConfigClient_with_environment("http://api/", "key",
                                                            "org", "a"), ttl),
      server |-> srv] :
        <<ttl, srv>> \in {<<None, ClientSrvOk>>, <<Some(1), ClientSrvOk>>,
                          <<None, ClientSrvDown>>}}

Owner == "client"

ClientInit ==
    /\ \E p \in ClientPrograms :
          /\ client = p.client
          /\ server = p.server
    /\ stored = EmptyMap
    /\ kind = "ConfigClient"
    /\ pc = [o \in {Owner} |-> "idle"]
    /\ arg = [o \in {Owner} |-> NoArg]
    /\ local = [o \in {Owner} |-> None]
    /\ requests = <<>>
    /\ now = 0
    /\ calls = 0
    /\ epoch = 0
    /\ updates = 0
    /\ mgr = None
    /\ env = EmptyMap
    /\ fs = FileSystem
    /\ dirCache = None
    /\ inner = ManagerInner_new
    /\ linner = Inner_new
    /\ lock = "free"
    /\ loadLog = <<>>
    /\ loadedFrom = None
    /\ hist = {}
    /\ mTarget = Null
    /\ mSource = Null
    /\ mResult = None
    /\ fileResult = None

\* what the last call returned, for the caller
Returned(op, environment, key, res, cached) ==
    Some([op |-> op, environment |-> environment, key |-> key, res |-> res,
          cached |-> cached])

\* get_value up to the await (client.rs 134-158): the cache check, the removal
\* of an expired entry and the request
GetValue(key, environment) ==
    /\ kind = "ConfigClient"
    /\ pc[Owner] = "idle"
    /\ calls < MaxCalls
    /\ calls' = calls + 1
    /\ LET env_name == resolve_env(client, environment)
           cache_key == format_cache_key(env_name, key)
           cached == get_cached(client, cache_key, now)
       IN IF cached.some
          THEN /\ local' = [local EXCEPT ![Owner] =
                               Returned("get_value", env_name, key, Ok(cached.val), TRUE)]
               /\ UNCHANGED <<client, stored, requests, pc, arg>>
          ELSE /\ client' = [client EXCEPT !.cache = MapRemove(@, cache_key)]
               /\ stored' = MapRemove(stored, cache_key)
               /\ requests' = Append(requests,
                      [endpoint |-> "value", base |-> client.base_url,
                       org |-> client.org_id, key |-> utf8_percent_encode(key),
                       environment |-> env_name, bearer |-> client.bearer])
               /\ pc' = [pc EXCEPT ![Owner] = "get_value"]
               /\ arg' = [arg EXCEPT ![Owner] = [key |-> key, environment |-> env_name]]
               /\ UNCHANGED local
    /\ UNCHANGED <<mTarget, mSource, mResult, fileResult, kind, mgr, env, fs, server,
                   dirCache, now, inner, linner, lock, epoch, updates, loadLog,
                   loadedFrom, hist>>

\* get_value from the answer on (client.rs 158-174)
GetValueResponse ==
    /\ kind = "ConfigClient"
    /\ pc[Owner] = "get_value"
    /\ LET key == arg[Owner].key
           env_name == arg[Owner].environment
           cache_key == format_cache_key(env_name, key)
           response == receive_value(value_response(server, updates,
                                                    requests[Len(requests)]))
       IN /\ IF response.ok
             THEN /\ client' = [client EXCEPT !.cache =
                                   MapInsert(@, cache_key,
                                             [value |-> response.val,
                                              expires_at |-> compute_expires_at(client, now)])]
                  /\ stored' = MapInsert(stored, cache_key, <<env_name, key>>)
             ELSE UNCHANGED <<client, stored>>
          /\ local' = [local EXCEPT ![Owner] =
                          Returned("get_value", env_name, key, response, FALSE)]
    /\ pc' = [pc EXCEPT ![Owner] = "idle"]
    /\ arg' = [arg EXCEPT ![Owner] = NoArg]
    /\ UNCHANGED <<mTarget, mSource, mResult, fileResult, kind, mgr, env, fs, server,
                   dirCache, now, inner, linner, lock, calls, epoch, updates, loadLog,
                   requests, loadedFrom, hist>>

\* get_all_values up to the await (client.rs 179-191)
GetAllValues(environment) ==
    /\ kind = "ConfigClient"
    /\ pc[Owner] = "idle"
    /\ calls < MaxCalls
    /\ calls' = calls + 1
    /\ LET env_name == resolve_env(client, environment)
       IN /\ requests' = Append(requests,
                 [endpoint |-> "values", base |-> client.base_url,
                  org |-> client.org_id, key |-> "",
                  environment |-> env_name, bearer |-> client.bearer])
          /\ arg' = [arg EXCEPT ![Owner] = [key |-> "", environment |-> env_name]]
    /\ pc' = [pc EXCEPT ![Owner] = "get_all_values"]
    /\ UNCHANGED <<mTarget, mSource, mResult, fileResult, client, stored, kind, mgr, env,
                   fs, server, dirCache, now, inner, linner, lock, local, epoch, updates,
                   loadLog, loadedFrom, hist>>

\* get_all_values from the answer on (client.rs 191-205); hist keeps, for the
\* caller, the values of the last Ok answer per environment since the last
\* invalidation
GetAllValuesResponse ==
    /\ kind = "ConfigClient"
    /\ pc[Owner] = "get_all_values"
    /\ LET env_name == arg[Owner].environment
           response == receive_values(values_response(server, updates,
                                                      requests[Len(requests)]))
       IN /\ IF response.ok
             THEN /\ client' = [client EXCEPT !.cache =
                                   insert_all(@, env_name, response.val,
                                              compute_expires_at(client, now))]
                  /\ stored' = [ck \in DOMAIN client'.cache |->
                                   IF \E k \in DOMAIN response.val :
                                         ck = format_cache_key(env_name, k)
                                   THEN <<env_name,
                                          CHOOSE k \in DOMAIN response.val :
                                              ck = format_cache_key(env_name, k)>>
                                   ELSE stored[ck]]
                  /\ hist' = {h \in hist : h.environment # env_name}
                             \cup {[environment |-> env_name, key |-> k,
                                    value |-> response.val[k],
                                    expires_at |-> compute_expires_at(client, now)] :
                                   k \in DOMAIN response.val}
             ELSE UNCHANGED <<client, stored, hist>>
          /\ local' = [local EXCEPT ![Owner] =
                          Returned("get_all_values", env_name, "", response, FALSE)]
    /\ pc' = [pc EXCEPT ![Owner] = "idle"]
    /\ arg' = [arg EXCEPT ![Owner] = NoArg]
    /\ UNCHANGED <<mTarget, mSource, mResult, fileResult, kind, mgr, env, fs, server,
                   dirCache, now, inner, linner, lock, calls, epoch, updates, loadLog,
                   requests, loadedFrom>>

\* invalidate_cache (client.rs 208-210)
InvalidateCache ==
    /\ kind = "ConfigClient"
    /\ pc[Owner] = "idle"
    /\ calls < MaxCalls
    /\ calls' = calls + 1
    /\ client' = [client EXCEPT !.cache = EmptyMap]
    /\ stored' = EmptyMap
    /\ epoch' = epoch + 1
    /\ hist' = {}
    /\ local' = [local EXCEPT ![Owner] = None]
    /\ UNCHANGED <<mTarget, mSource, mResult, fileResult, kind, mgr, env, fs, server,
                   dirCache, now, inner, linner, lock, pc, arg, updates, loadLog,
                   requests, loadedFrom>>

\* invalidate_cache_for_environment (client.rs 213-217)
InvalidateCacheForEnvironment(environment) ==
    /\ kind = "ConfigClient"
    /\ pc[Owner] = "idle"
    /\ calls < MaxCalls
    /\ calls' = calls + 1
    /\ client' = [client EXCEPT !.cache = retain_other(@, environment)]
    /\ stored' = [ck \in DOMAIN client'.cache |-> stored[ck]]
    /\ epoch' = epoch + 1
    /\ hist' = {}
    /\ local' = [local EXCEPT ![Owner] = None]
    /\ UNCHANGED <<mTarget, mSource, mResult, fileResult, kind, mgr, env, fs, server,
                   dirCache, now, inner, linner, lock, pc, arg, updates, loadLog,
                   requests, loadedFrom>>

\* Instant::now() advances, also while a request is awaited; a client without
\* TTL never reads the clock (client.rs 120, 125), and get_cached compares the
\* clock with the entries' expiry only, so time is followed while the client
\* has a TTL and holds an entry that has not expired
ClientTick ==
    /\ kind = "ConfigClient"
    /\ client.cache_ttl # None
    /\ now < MaxTime
    /\ \E ck \in DOMAIN client.cache : client.cache[ck].expires_at.val >= now
    /\ now' = now + 1
    /\ UNCHANGED <<mTarget, mSource, mResult, fileResult, client, stored, kind, mgr, env,
                   fs, server, dirCache, inner, linner, lock, pc, arg, local, calls,
                   epoch, updates, loadLog, requests, loadedFrom, hist>>

\* the server's content and behaviour change; taken between calls only, a
\* change during a request being the same as one just before it
ClientServerUpdate ==
    /\ kind = "ConfigClient"
    /\ pc[Owner] = "idle"
    /\ updates < MaxUpdates
    /\ updates' = updates + 1
    /\ server' \in ClientServers \ {ClientSrvDown}
    /\ UNCHANGED <<mTarget, mSource, mResult, fileResult, client, stored, kind, mgr, env,
                   fs, dirCache, now, inner, linner, lock, pc, arg, local, calls, epoch,
                   loadLog, requests, loadedFrom, hist>>

ClientNext ==
    \/ \E key \in ClientKeys, environment \in EnvironmentArgs : GetValue(key, environment)
    \/ GetValueResponse
    \/ \E environment \in EnvironmentArgs : GetAllValues(environment)
    \/ GetAllValuesResponse
    \/ InvalidateCache
    \/ \E environment \in ClientEnvNames : InvalidateCacheForEnvironment(environment)
    \/ ClientTick
    \/ ClientServerUpdate

ClientSpec == ClientInit /\ [][ClientNext]_vars

(***************************************************************************)
(* find_and_process_file_config_with_env on its own: one call on an        *)
(* environment snapshot and a config directory                             *)
(***************************************************************************)
\* the files a config directory may hold (file_config.rs 265-295)
FileNames == {"default.json", "local.json", "test.json", "test.aws.json",
              "test.aws.eu.json"}

\* each file sets "last" and "N.last" to its own name, and a key of its own
\* name at the top and inside "N"
FileContent(name) ==
    Obj(("last" :> Str(name)) @@ (name :> Bool(TRUE)) @@
        ("N" :> Obj(("last" :> Str(name)) @@ (name :> Bool(TRUE)))))

\* config directories /cfg: each file absent, holding JSON, or not parsing
FileSystems ==
    {[cwd |-> "/w/app",
      dirs |-> {"/", "/w", "/w/app", "/cfg"},
      files |-> [p \in {join("/cfg", n) : n \in {m \in FileNames : kinds[m] # "absent"}} |->
                    LET name == CHOOSE n \in FileNames : join("/cfg", n) = p
                    IN IF kinds[name] = "json"
                       THEN [kind |-> "json", json |-> FileContent(name)]
                       ELSE [kind |-> "garbage", json |-> Null]]] :
     kinds \in [FileNames -> {"absent", "json", "garbage"}]}

\* environment snapshots: IS_LOCAL unset, true or false; SMOOAI_CONFIG_ENV unset
\* or test; no cloud variable, AWS_REGION, or the provider alone
FileEnvs ==
    {("SMOOAI_ENV_CONFIG_DIR" :> "/cfg") @@ is_local @@ env_name @@ cloud :
        is_local \in {EmptyMap, ("IS_LOCAL" :> "true"), ("IS_LOCAL" :> "false")},
        env_name \in {EmptyMap, ("SMOOAI_CONFIG_ENV" :> "test")},
        cloud \in {EmptyMap, ("AWS_REGION" :> "eu"),
                   ("SMOOAI_CONFIG_CLOUD_PROVIDER" :> "aws")}}

\* a caller about to call find_and_process_file_config_with_env(&env)
FileInit ==
    /\ env \in FileEnvs
    /\ fs \in FileSystems
    /\ fileResult = None
    /\ kind = "file_config"
    /\ mgr = None
    /\ server = SrvDown
    /\ pc = <<>>
    /\ arg = <<>>
    /\ local = <<>>
    /\ dirCache = None
    /\ now = 0
    /\ inner = ManagerInner_new
    /\ linner = Inner_new
    /\ lock = "free"
    /\ calls = 0
    /\ epoch = 0
    /\ updates = 0
    /\ loadLog = <<>>
    /\ requests = <<>>
    /\ loadedFrom = None
    /\ hist = {}
    /\ mTarget = Null
    /\ mSource = Null
    /\ mResult = None
    /\ client = None
    /\ stored = EmptyMap

\* the call and its Result
FileApply ==
    /\ kind = "file_config"
    /\ fileResult = None
    /\ LET loaded == find_and_process_file_config_with_env(env, fs, dirCache, now)
       IN /\ fileResult' = Some(loaded.res)
          /\ dirCache' = loaded.cache
    /\ UNCHANGED <<mTarget, mSource, mResult, client, stored, kind, mgr, env, fs, server,
                   now, inner, linner, lock, pc, arg, local, calls, epoch, updates,
                   loadLog, requests, loadedFrom, hist>>

FileNext == FileApply

FileSpec == FileInit /\ [][FileNext]_vars

(***************************************************************************)
(* find_config_directory_with_env on its own: searches of one process,     *)
(* which share CONFIG_DIR_CACHE                                            *)
(***************************************************************************)
\* the working directories a search starts from
DirCwds == {"/w/app/pkg", "/w/app"}

\* the well-known directories that may exist, at and above the working
\* directories
DirCandidates ==
    {"/w/app/pkg/.smooai-config", "/w/app/smooai-config", "/w/.smooai-config"}

DirFileSystems ==
    {[cwd |-> cwd,
      dirs |-> {"/", "/w", "/w/app", "/w/app/pkg", "/cfg"} \cup found,
      files |-> EmptyMap] : cwd \in DirCwds, found \in SUBSET DirCandidates}

\* environment snapshots: the override unset, naming a directory or naming
\* none; the level limit unset, a number, or a text that is no number
DirEnvs ==
    {override @@ limit :
        override \in {EmptyMap, ("SMOOAI_ENV_CONFIG_DIR" :> "/cfg"),
                      ("SMOOAI_ENV_CONFIG_DIR" :> "/nope")},
        limit \in {EmptyMap, ("SMOOAI_CONFIG_LEVELS_UP_LIMIT" :> "1"),
                   ("SMOOAI_CONFIG_LEVELS_UP_LIMIT" :> "x")}}

\* the time that passes in one step: half the cache's time to live
DirStep == CONFIG_DIR_TTL_SECS \div 2

\* a process that has not searched yet: the cache is empty (file_config.rs 15)
DirInit ==
    /\ fs \in DirFileSystems
    /\ dirCache = None
    /\ stored = None
    /\ fileResult = None
    /\ env = EmptyMap
    /\ kind = "find_config_directory"
    /\ pc = [t \in {"t1"} |-> "idle"]
    /\ arg = [t \in {"t1"} |-> NoArg]
    /\ local = [t \in {"t1"} |-> NoLocals]
    /\ mgr = None
    /\ server = SrvDown
    /\ now = 0
    /\ inner = ManagerInner_new
    /\ linner = Inner_new
    /\ lock = "free"
    /\ calls = 0
    /\ epoch = 0
    /\ updates = 0
    /\ loadLog = <<>>
    /\ requests = <<>>
    /\ loadedFrom = None
    /\ hist = {}
    /\ mTarget = Null
    /\ mSource = Null
    /\ mResult = None
    /\ client = None

\* one call find_config_directory_with_env(ignore_cache, &environment); stored
\* keeps the working directory and the environment of the search that wrote
\* the cache
Search(ignore_cache, environment) ==
    /\ kind = "find_config_directory"
    /\ calls < MaxCalls
    /\ calls' = calls + 1
    /\ env' = environment
    /\ arg' = [arg EXCEPT !["t1"] = [op |-> "find_config_directory",
                                     key |-> "", sel |-> "",
                                     ignore_cache |-> ignore_cache]]
    /\ LET found == find_config_directory_with_env(ignore_cache, environment, fs,
                                                   dirCache, now)
       IN /\ fileResult' = Some(found.res)
          /\ dirCache' = found.cache
          /\ stored' = IF found.cache # dirCache
                       THEN Some([cwd |-> fs.cwd, env |-> environment])
                       ELSE stored
    /\ UNCHANGED <<mTarget, mSource, mResult, client, kind, mgr, fs, server, now, inner,
                   linner, lock, pc, local, epoch, updates, loadLog, requests,
                   loadedFrom, hist>>

\* std::env::set_current_dir between two searches
ChangeDir(cwd) ==
    /\ kind = "find_config_directory"
    /\ updates < MaxUpdates
    /\ cwd # fs.cwd
    /\ updates' = updates + 1
    /\ fs' = [fs EXCEPT !.cwd = cwd]
    /\ UNCHANGED <<mTarget, mSource, mResult, client, stored, fileResult, kind, mgr, env,
                   server, dirCache, now, inner, linner, lock, pc, arg, local, calls,
                   epoch, loadLog, requests, loadedFrom, hist>>

\* the cached directory is removed from the file system
RemoveDir ==
    /\ kind = "find_config_directory"
    /\ updates < MaxUpdates
    /\ dirCache.some
    /\ dirCache.val.dir \in fs.dirs
    /\ updates' = updates + 1
    /\ fs' = [fs EXCEPT !.dirs = @ \ {dirCache.val.dir}]
    /\ UNCHANGED <<mTarget, mSource, mResult, client, stored, fileResult, kind, mgr, env,
                   server, dirCache, now, inner, linner, lock, pc, arg, local, calls,
                   epoch, loadLog, requests, loadedFrom, hist>>

\* time passes; it is read by the cache check only
DirTick ==
    /\ kind = "find_config_directory"
    /\ dirCache.some
    /\ now < MaxTime * DirStep
    /\ now' = now + DirStep
    /\ UNCHANGED <<mTarget, mSource, mResult, client, stored, fileResult, kind, mgr, env,
                   fs, server, dirCache, inner, linner, lock, pc, arg, local, calls,
                   epoch, updates, loadLog, requests, loadedFrom, hist>>

DirNext ==
    \/ \E ignore_cache \in BOOLEAN, environment \in DirEnvs :
          Search(ignore_cache, environment)
    \/ \E cwd \in DirCwds : ChangeDir(cwd)
    \/ RemoveDir
    \/ DirTick

DirSpec == DirInit /\ [][DirNext]_vars

(***************************************************************************)
(* find_and_process_env_config_with_env on its own: calls on one schema,   *)
(* prefix, type hints and environment snapshot                             *)
(***************************************************************************)
\* the variables a snapshot may hold (env_config.rs 121-127)
EnvLoaderVars ==
    {("NEXT_PUBLIC_API_URL" :> "http://p"), ("API_URL" :> "http://u"),
     ("MAX_RETRIES" :> "3"), ("SMOOAI_CONFIG_ENV" :> "test")}

RECURSIVE MapUnion(_)
MapUnion(maps) ==
    IF maps = {} THEN EmptyMap
    ELSE LET m == CHOOSE m \in maps : TRUE IN m @@ MapUnion(maps \ {m})

EnvLoaderEnvs == {MapUnion(s) : s \in SUBSET EnvLoaderVars}

\* the loader's other arguments: schema keys, prefix and type hints
EnvLoaderArgs ==
    {[schema_keys |-> Some({"API_URL", "MAX_RETRIES"}),
      env_prefix |-> prefix,
      schema_types |-> types] :
        prefix \in {"", "NEXT_PUBLIC_"},
        types \in {None, Some(("MAX_RETRIES" :> "number"))}}

\* a caller about to call the loader
EnvLoaderInit ==
    /\ mgr \in EnvLoaderArgs
    /\ env \in EnvLoaderEnvs
    /\ hist = {}
    /\ calls = 0
    /\ kind = "find_and_process_env_config"
    /\ pc = <<>>
    /\ arg = <<>>
    /\ local = <<>>
    /\ fs = FileSystem
    /\ server = SrvDown
    /\ dirCache = None
    /\ now = 0
    /\ inner = ManagerInner_new
    /\ linner = Inner_new
    /\ lock = "free"
    /\ epoch = 0
    /\ updates = 0
    /\ loadLog = <<>>
    /\ requests = <<>>
    /\ loadedFrom = None
    /\ mTarget = Null
    /\ mSource = Null
    /\ mResult = None
    /\ client = None
    /\ stored = EmptyMap
    /\ fileResult = None

\* one call of the loader on these arguments; hist keeps the mappings returned
EnvLoad ==
    /\ kind = "find_and_process_env_config"
    /\ calls < MaxCalls
    /\ calls' = calls + 1
    /\ \E result \in find_and_process_env_config_with_env(
                         UnwrapOr(mgr.schema_keys, {}), mgr.env_prefix, mgr.schema_types, env) :
          hist' = hist \cup {result}
    /\ UNCHANGED <<mTarget, mSource, mResult, client, stored, fileResult, kind, mgr, env,
                   fs, server, dirCache, now, inner, linner, lock, pc, arg, local,
                   epoch, updates, loadLog, requests, loadedFrom>>

EnvLoaderNext == EnvLoad

EnvLoaderSpec == EnvLoaderInit /\ [][EnvLoaderNext]_vars

(***************************************************************************)
(* ConfigManager on its own, with sources that supply the built-in keys    *)
(* and sources that fail                                                   *)
(***************************************************************************)
\* with_schema_keys (config_manager.rs 112-115)
with_schema_keys(m, keys) == [m EXCEPT !.schema_keys = Some(keys)]

\* FileSystem with a config directory whose default.json sets built-in keys
FileSystemBuiltin ==
    [FileSystem EXCEPT
        !.dirs = @ \cup {"/b"},
        !.files = @ @@
            ("/b/default.json" :>
                [kind |-> "json",
                 json |-> Obj(("A" :> Str("file-a")) @@
                              ("ENV" :> Obj(("x" :> Str("file-env")))) @@
                              ("REGION" :> Str("file-region")))])]

\* variables named as built-in keys, which the schema lists
EnvBuiltin ==
    ("SMOOAI_ENV_CONFIG_DIR" :> "/b") @@ ("SMOOAI_CONFIG_ENV" :> "test") @@
    ("ENV" :> "var-env") @@ ("IS_LOCAL" :> "1") @@ ("AWS_REGION" :> "eu")

\* a remote answer that sets built-in keys
SrvBuiltin ==
    [kind |-> "response", status |-> 200,
     body |-> Some(Obj(("values" :> Obj(("A" :> Str("remote-a")) @@
                                        ("ENV" :> Str("remote-env")) @@
                                        ("IS_LOCAL" :> Bool(FALSE)) @@
                                        ("CLOUD_PROVIDER" :> Obj(("x" :> Str("rp"))))))))]

\* a deferred definition for a built-in key
DefEnv == ("ENV" :> [fn |-> "suffix", key |-> "ENV"])

ManagerPrograms ==
    { [threads |-> {"t1", "t2"},
       mgr |-> with_schema_keys(ConfigManager_new(1, TRUE, DefNone),
                                {"A", "ENV", "IS_LOCAL"}),
       env |-> EnvBuiltin, server |-> SrvBuiltin, fs |-> FileSystemBuiltin],
      [threads |-> {"t1"},
       mgr |-> ConfigManager_new(1, TRUE, DefEnv),
       env |-> EnvBad, server |-> SrvDown, fs |-> FileSystem],
      [threads |-> {"t1"},
       mgr |-> ConfigManager_new(2, TRUE, DefNone),
       env |-> EnvA, server |-> Srv500, fs |-> FileSystem],
      [threads |-> {"t1"},
       mgr |-> ConfigManager_new(1, TRUE, DefChain),
       env |-> EnvNoDir, server |-> SrvFull, fs |-> FileSystemBuiltin] }

ManagerInit ==
    /\ \E p \in ManagerPrograms :
          /\ mgr = p.mgr
          /\ env = p.env
          /\ server = p.server
          /\ fs = p.fs
          /\ pc = [t \in p.threads |-> "idle"]
          /\ arg = [t \in p.threads |-> NoArg]
          /\ local = [t \in p.threads |-> NoLocals]
    /\ kind = "ConfigManager"
    /\ dirCache = None
    /\ now = 0
    /\ inner = ManagerInner_new
    /\ linner = Inner_new
    /\ lock = "free"
    /\ calls = 0
    /\ epoch = 0
    /\ updates = 0
    /\ loadLog = <<>>
    /\ requests = <<>>
    /\ loadedFrom = None
    /\ hist = {}
    /\ mTarget = Null
    /\ mSource = Null
    /\ mResult = None
    /\ client = None
    /\ stored = EmptyMap
    /\ fileResult = None

ManagerNext ==
    \/ \E t \in Threads, key \in GetKeys, sel \in Tiers : CallGet(t, key, sel)
    \/ \E t \in Threads : CallInvalidate(t)
    \/ \E t \in Threads : AcquireWrite(t)
    \/ Tick
    \/ ServerUpdate
    \/ \E t \in Threads : CheckCache(t)
    \/ \E t \in Threads : LoadFile(t)
    \/ \E t \in Threads : LoadEnv(t)
    \/ \E t \in Threads : FetchRemote(t)
    \/ \E t \in Threads : Merge(t)
    \/ \E t \in Threads : ResolveDeferred(t)
    \/ \E t \in Threads : SetInitialized(t)
    \/ \E t \in Threads : Lookup(t)
    \/ \E t \in Threads : Invalidate(t)

ManagerSpec == ManagerInit /\ [][ManagerNext]_vars

(***************************************************************************)
(* resolve_deferred on its own: one call on a config map and a map of      *)
(* deferred definitions                                                    *)
(***************************************************************************)
\* the keys of the maps
DeferredKeys == {"A", "D", "E"}

\* config maps: each key absent, a string or a number
DeferredConfigs ==
    {[k \in {j \in DeferredKeys : vals[j] # Null} |-> vals[k]] :
        vals \in [DeferredKeys -> {Null, Str("x"), Num(1)}]}

\* the closures of the tests (deferred.rs 41-47, 66-79): each reads one key
DeferredResolvers ==
    {[fn |-> "suffix", key |-> "A"], [fn |-> "has", key |-> "D"], [fn |-> "copy", key |-> "E"]}

\* maps of deferred definitions: each key without a definition or with one of
\* the closures; the empty map is among them (deferred.rs 109-118)
DeferredMaps ==
    {[k \in {j \in DeferredKeys : defs[j] # Null} |-> defs[k]] :
        defs \in [DeferredKeys -> {Null} \cup DeferredResolvers]}

\* a caller about to call resolve_deferred(&mut config, &deferred)
DeferredInit ==
    /\ \E config \in DeferredConfigs, deferred \in DeferredMaps :
          /\ inner = [ManagerInner_new EXCEPT !.config = config]
          /\ mgr = [deferred |-> deferred]
    /\ kind = "resolve_deferred"
    /\ pc = [t \in {"t1"} |-> "resolve_deferred_call"]
    /\ arg = [t \in {"t1"} |-> NoArg]
    /\ local = [t \in {"t1"} |-> NoLocals]
    /\ env = EmptyMap
    /\ fs = FileSystem
    /\ server = SrvDown
    /\ dirCache = None
    /\ now = 0
    /\ linner = Inner_new
    /\ lock = "free"
    /\ calls = 0
    /\ epoch = 0
    /\ updates = 0
    /\ loadLog = <<>>
    /\ requests = <<>>
    /\ loadedFrom = None
    /\ hist = {}
    /\ mTarget = Null
    /\ mSource = Null
    /\ mResult = None
    /\ client = None
    /\ stored = EmptyMap
    /\ fileResult = None

\* let snapshot = config.clone() (deferred.rs 21); with no definition the loop
\* has no iteration and the function returns
TakeSnapshot(t) ==
    /\ kind = "resolve_deferred"
    /\ pc[t] = "resolve_deferred_call"
    /\ local' = [local EXCEPT ![t].snapshot = inner.config,
                              ![t].pending = DOMAIN mgr.deferred]
    /\ pc' = [pc EXCEPT ![t] = IF mgr.deferred = EmptyMap
                               THEN "initialized" ELSE "resolve_deferred"]
    /\ UNCHANGED <<mTarget, mSource, mResult, client, stored, fileResult,
                   kind, mgr, env, fs, server, dirCache, now, inner, linner, lock, arg,
                   calls, epoch, updates, loadLog, requests, loadedFrom, hist>>

DeferredNext ==
    \/ \E t \in Threads : TakeSnapshot(t)
    \/ \E t \in Threads : ResolveDeferred(t)

DeferredSpec == DeferredInit /\ [][DeferredNext]_vars

(***************************************************************************)
(* Properties                                                              *)
(***************************************************************************)
Count(seq, x) == Cardinality({i \in DOMAIN seq : seq[i] = x})

FileLoads == Count(loadLog, "file")

\* the thread is inside get_value, holding the lock
InGetValue(t) ==
    pc[t] \in {"check_cache", "initialize", "load_env", "fetch_remote", "merge",
               "resolve_deferred", "initialized", "lookup"}

\* the thread's initialize_inner has merged its sources and resolved no deferred value yet
JustMerged(t) ==
    /\ kind = "ConfigManager"
    /\ \/ pc[t] = "initialized" /\ mgr.deferred = EmptyMap
       \/ pc[t] = "resolve_deferred" /\ local[t].pending = DOMAIN mgr.deferred

\* file, remote and env mappings of the thread's initialization pass, lowest precedence first
Sources(t) == <<local[t].file_config, local[t].remote_config, local[t].env_config>>

Defining(t, k) == {i \in 1..3 : k \in DOMAIN Sources(t)[i]}

\* the value of the highest-precedence source that defines k
Highest(t, k) ==
    LET i == CHOOSE i \in Defining(t, k) : \A j \in Defining(t, k) : j <= i
    IN Sources(t)[i][k]

\* C1: the merged config of an initialization pass is merge(merge(merge({}, F), R), E);
\* its keys are those of F, R and E; a key defined by one source only keeps that
\* source's value; where the highest-precedence source defining a key gives it a
\* value that is not an object that value wins verbatim, and where it gives an
\* object each of its non-object members wins (env over remote over file).
C1_MergePrecedence ==
    \A t \in Threads : JustMerged(t) =>
        LET F == Sources(t)[1]
            R == Sources(t)[2]
            E == Sources(t)[3]
            merged == inner.config
        IN /\ Obj(merged) =
                 merge_replace_arrays(
                     merge_replace_arrays(
                         merge_replace_arrays(Obj(EmptyMap), Obj(F)), Obj(R)), Obj(E))
           /\ DOMAIN merged = DOMAIN F \cup DOMAIN R \cup DOMAIN E
           /\ \A k \in DOMAIN merged :
                 LET top == Highest(t, k)
                 IN /\ Cardinality(Defining(t, k)) = 1 => merged[k] = top
                    /\ top.t # "obj" => merged[k] = top
                    /\ top.t = "obj" =>
                          /\ merged[k].t = "obj"
                          /\ \A j \in DOMAIN top.v :
                                /\ j \in DOMAIN merged[k].v
                                /\ top.v[j].t # "obj" => merged[k].v[j] = top.v[j]

\* a pass merged a key that all three sources define differently, next to a key
\* only the file defines
C1_Witness ==
    \E t \in Threads :
        /\ JustMerged(t)
        /\ \E k \in DOMAIN inner.config :
              /\ Defining(t, k) = {1, 2, 3}
              /\ Sources(t)[1][k] # Sources(t)[2][k]
              /\ Sources(t)[2][k] # Sources(t)[3][k]
              /\ Sources(t)[1][k] # Sources(t)[3][k]
              /\ inner.config[k] = Sources(t)[3][k]
        /\ \E k \in DOMAIN inner.config :
              Defining(t, k) = {1} /\ inner.config[k] = Sources(t)[1][k]

\* C2: with no invalidate so far, however the threads' get calls interleave, the
\* file, env and remote loads have each run at most once (exactly once as soon as
\* a get returned), at most one thread is inside get_value, and every get that
\* returned gave the value the merged config holds for its key.
C2_SingleInitialization ==
    (kind = "ConfigManager" /\ epoch = 0) =>
        /\ FileLoads <= 1
        /\ Count(loadLog, "env") <= 1
        /\ Len(requests) <= 1
        /\ Cardinality({t \in Threads : InGetValue(t)}) <= 1
        /\ hist # {} =>
              /\ FileLoads = 1
              /\ inner.initialized
              /\ \A h \in hist : h.res = Ok(MapGet(inner.config, h.key))

\* one thread has run the pipeline and not yet returned while a second thread's
\* get waits for the lock
C2_Witness ==
    /\ kind = "ConfigManager"
    /\ epoch = 0
    /\ \E t, u \in Threads :
          /\ t # u
          /\ pc[t] = "initialized"
          /\ pc[u] = "get_lock"
          /\ arg[u].op = "get"
    /\ FileLoads = 1
    /\ Len(requests) = 1

\* C3: ConfigManager.invalidate(), in whatever state it runs, leaves
\* initialized = false, an empty merged config and three empty caches, and loads
\* nothing; run before the first initialization it leaves the state as it was.
C3_InvalidateClears ==
    [][\A t \in Threads :
          (kind = "ConfigManager" /\ pc[t] = "inv_lock" /\ pc'[t] = "idle") =>
              /\ inner'.initialized = FALSE
              /\ inner'.config = EmptyMap
              /\ inner'.public_cache = EmptyMap
              /\ inner'.secret_cache = EmptyMap
              /\ inner'.feature_flag_cache = EmptyMap
              /\ loadLog' = loadLog
              /\ requests' = requests
              /\ loadLog = <<>> => inner' = inner]_vars

\* invalidate has run on a manager that had served a value, and left it cleared
C3_Witness ==
    /\ kind = "ConfigManager"
    /\ epoch >= 1
    /\ \A t \in Threads : pc[t] = "idle"
    /\ \E h \in hist : h.res.ok /\ h.res.val.some
    /\ inner.initialized = FALSE
    /\ inner.config = EmptyMap
    /\ inner.public_cache = EmptyMap
    /\ inner.secret_cache = EmptyMap
    /\ inner.feature_flag_cache = EmptyMap

\* the invalidate epochs in which some get returned
GetEpochs == {h.epoch : h \in hist}

\* the three remote parameters resolve (config_manager.rs 200-204)
CredentialsResolve ==
    /\ resolve_param("SMOOAI_CONFIG_API_KEY", mgr.api_key).some
    /\ resolve_param("SMOOAI_CONFIG_API_URL", mgr.base_url).some
    /\ resolve_param("SMOOAI_CONFIG_ORG_ID", mgr.org_id).some

TierCache ==
    [public |-> "public_cache", secret |-> "secret_cache", feature_flag |-> "feature_flag_cache"]

\* C5: a step of a get on tier T changes no cache but T's, and every entry of
\* every tier's cache holds the value the merged config has for its key, so a key
\* resolves to the same value from every tier.
C5_TierIsolation ==
    /\ [](kind = "ConfigManager" =>
             \A s \in Tiers : \A k \in DOMAIN inner[TierCache[s]] :
                 /\ inner.initialized
                 /\ k \in DOMAIN inner.config
                 /\ inner[TierCache[s]][k].value = inner.config[k])
    /\ [][(kind = "ConfigManager" /\ epoch' = epoch) =>
             \A s \in Tiers :
                 inner'[TierCache[s]] # inner[TierCache[s]] =>
                     \E t \in Threads : lock = t /\ arg[t].op = "get" /\ arg[t].sel = s]_vars

\* a key is cached under the secret and feature-flag tiers with one value and is
\* not in the public tier's cache
C5_Witness ==
    /\ kind = "ConfigManager"
    /\ \E k \in DOMAIN inner.secret_cache :
          /\ k \notin DOMAIN inner.public_cache
          /\ k \in DOMAIN inner.feature_flag_cache
          /\ inner.feature_flag_cache[k].value = inner.secret_cache[k].value

\* C6: a get, a wait past the entry's expiry and a second get of the key invoke
\* the source loads once, not twice: the expired entry is evicted and the key is
\* read again from the merged config the first get built (at most one remote
\* request, one file load, one env load).
C6_ExpiryRereadsMergedConfig ==
    (kind = "ConfigManager" /\ epoch = 0 /\ Count(loadLog, "evict") >= 1) =>
        /\ FileLoads = 1
        /\ Count(loadLog, "env") = 1
        /\ Len(requests) <= 1
        /\ loadLog[1] = "file"
        /\ inner.initialized \/ \E t \in Threads : InGetValue(t)

\* with a TTL of one tick: get, the entry expires, get again; one file load in all
C6_Witness ==
    /\ kind = "ConfigManager"
    /\ mgr.cache_ttl = 1
    /\ epoch = 0
    /\ calls = 2
    /\ \A t \in Threads : pc[t] = "idle"
    /\ Count(loadLog, "evict") = 1
    /\ FileLoads = 1
    /\ \E h \in hist : h.res.ok /\ h.res.val.some

\* C6 as the spec states it: with a TTL of one tick, after a get, the expiry and a
\* second get, the source load has been invoked twice.
C6_ExpiryReloadsSources ==
    (/\ kind = "ConfigManager"
     /\ mgr.cache_ttl = 1
     /\ epoch = 0
     /\ calls = 2
     /\ \A t \in Threads : pc[t] = "idle"
     /\ Count(loadLog, "evict") = 1) => FileLoads = 2

\* C7: for either manager, two gets of one key that returned a value or 'not
\* found' within the same invalidate epoch returned the same result, whether
\* served from the cache or read again from the merged config after the expiry.
C7_StableWhileInitialized ==
    \A h1, h2 \in hist :
        (h1.key = h2.key /\ h1.epoch = h2.epoch /\ h1.res.ok /\ h2.res.ok) => h1.res = h2.res

\* a key was served, its entry expired and was read again, while the remote
\* content is no longer the one the merged config was built from
C7_Witness ==
    /\ kind = "ConfigManager"
    /\ epoch = 0
    /\ \A t \in Threads : pc[t] = "idle"
    /\ Count(loadLog, "evict") >= 1
    /\ loadedFrom # Some(server)
    /\ remote_values(loadedFrom.val) # remote_values(server)
    /\ \E h \in hist :
          /\ h.res.ok /\ h.res.val.some
          /\ h.key \in DOMAIN remote_values(server)
          /\ h.key \in DOMAIN remote_values(loadedFrom.val)

\* C8: a get whose key the merged config does not hold returns Ok(None) and
\* leaves every cache as it was; every cached key is a key of the merged config,
\* and a key a get found absent in the current epoch is in no cache.
C8_AbsentNeverCached ==
    /\ [](kind = "ConfigManager" =>
             /\ \A s \in Tiers : DOMAIN inner[TierCache[s]] \subseteq DOMAIN inner.config
             /\ \A h \in hist :
                   (h.epoch = epoch /\ h.res = Ok(None)) =>
                       \A s \in Tiers : h.key \notin DOMAIN inner[TierCache[s]])
    /\ [][\A t \in Threads :
             (/\ kind = "ConfigManager"
              /\ pc[t] = "lookup"
              /\ pc'[t] = "idle"
              /\ arg[t].key \notin DOMAIN inner.config) =>
                 /\ inner' = inner
                 /\ [key |-> arg[t].key, res |-> Ok(None), epoch |-> epoch,
                     from |-> loadedFrom] \in hist']_vars

\* two gets of a key no source defines have returned, both 'not found', and the
\* caches are empty
C8_Witness ==
    /\ kind = "ConfigManager"
    /\ epoch = 0
    /\ calls = 2
    /\ \A t \in Threads : pc[t] = "idle"
    /\ inner.initialized
    /\ Cardinality(hist) = 1
    /\ \A h \in hist : h.res = Ok(None) /\ h.key \notin DOMAIN inner.config
    /\ \A s \in Tiers : inner[TierCache[s]] = EmptyMap

\* C9: a constructed ConfigManager on which nothing was called yet has loaded no
\* file, no environment and sent no request, is not initialized and has an empty
\* config and empty caches; any load in the log was made by a get that is running
\* or has returned.
C9_ConstructionLoadsNothing ==
    kind = "ConfigManager" =>
        /\ calls = 0 =>
              /\ loadLog = <<>>
              /\ requests = <<>>
              /\ dirCache = None
              /\ inner.initialized = FALSE
              /\ inner.config = EmptyMap
              /\ \A s \in Tiers : inner[TierCache[s]] = EmptyMap
        /\ (loadLog # <<>> \/ requests # <<>>) =>
              \/ hist # {}
              \/ \E t \in Threads : arg[t].op = "get" /\ InGetValue(t)

\* a manager built with credentials and deferred values made its first load, the
\* file load, inside the first call, a get that has not returned yet
C9_Witness ==
    /\ kind = "ConfigManager"
    /\ calls = 1
    /\ mgr.deferred # EmptyMap
    /\ mgr.api_key.some /\ mgr.base_url.some /\ mgr.org_id.some
    /\ loadLog = <<"file">>
    /\ hist = {}
    /\ \E t \in Threads : arg[t].op = "get" /\ pc[t] = "load_env"

\* the merged config of the thread's initialization pass before any deferred value
PreDeferred(t) ==
    merge_sources(local[t].file_config, local[t].remote_config, local[t].env_config).v

\* C10: while and after resolve_deferred runs, the snapshot is the merged config
\* as it was before any deferred value was inserted, every deferred key resolved
\* so far holds its resolver's result on that snapshot, in whatever order the
\* resolvers ran, and every other key keeps its merged value.
C10_SnapshotIsolation ==
    \A t \in Threads :
        (/\ kind = "ConfigManager"
         /\ pc[t] \in {"resolve_deferred", "initialized"}
         /\ mgr.deferred # EmptyMap) =>
            LET resolved == DOMAIN mgr.deferred \ local[t].pending
            IN /\ local[t].snapshot = PreDeferred(t)
               /\ DOMAIN inner.config = DOMAIN PreDeferred(t) \cup resolved
               /\ \A k \in resolved :
                     inner.config[k] = apply_resolver(mgr.deferred[k], PreDeferred(t))
               /\ \A k \in DOMAIN PreDeferred(t) \ resolved :
                     inner.config[k] = PreDeferred(t)[k]

\* both deferred values are resolved, one resolver reads the key the other one
\* writes, and it did not see the written value
C10_Witness ==
    \E t \in Threads :
        /\ kind = "ConfigManager"
        /\ pc[t] = "initialized"
        /\ \E a, b \in DOMAIN mgr.deferred :
              /\ a # b
              /\ mgr.deferred[b].key = a
              /\ inner.config[b] = apply_resolver(mgr.deferred[b], local[t].snapshot)
              /\ inner.config[b] # apply_resolver(mgr.deferred[b], inner.config)

\* C11: whenever resolve_deferred is running, the file, remote and env mappings of
\* the pass are already merged: the snapshot the resolvers read is the three-way
\* merge, it holds the env value for every key the env source gives a non-object
\* value, no source is loaded and no request sent from then on, and once the
\* pass is done every deferred key holds its resolver's result on that merge.
C11_DeferredAfterMerge ==
    /\ [](kind = "ConfigManager" =>
             \A t \in Threads :
                 (pc[t] \in {"resolve_deferred", "initialized"} /\ mgr.deferred # EmptyMap) =>
                     LET E == local[t].env_config
                         full == merge_replace_arrays(
                                     merge_replace_arrays(
                                         merge_replace_arrays(Obj(EmptyMap),
                                                              Obj(local[t].file_config)),
                                         Obj(local[t].remote_config)),
                                     Obj(E))
                     IN /\ Obj(local[t].snapshot) = full
                        /\ \A k \in DOMAIN E :
                              E[k].t # "obj" => local[t].snapshot[k] = E[k]
                        /\ pc[t] = "initialized" =>
                              \A k \in DOMAIN mgr.deferred :
                                  inner.config[k] = apply_resolver(mgr.deferred[k], full.v))
    /\ [][\A t \in Threads :
             (kind = "ConfigManager" /\ pc[t] \in {"resolve_deferred", "initialized"}) =>
                 /\ loadLog' = loadLog
                 /\ requests' = requests
                 /\ local'[t].file_config = local[t].file_config
                 /\ local'[t].remote_config = local[t].remote_config
                 /\ local'[t].env_config = local[t].env_config]_vars

\* a resolver that reads a key the file and the env source define differently has
\* produced its value from the env value
C11_Witness ==
    \E t \in Threads :
        /\ kind = "ConfigManager"
        /\ pc[t] = "initialized"
        /\ \E k \in DOMAIN mgr.deferred :
              LET read == mgr.deferred[k].key
              IN /\ mgr.deferred[k].fn = "suffix"
                 /\ read \in DOMAIN local[t].file_config
                 /\ read \in DOMAIN local[t].env_config
                 /\ local[t].file_config[read] # local[t].env_config[read]
                 /\ local[t].env_config[read].t = "str"
                 /\ inner.config[k] = Str(local[t].env_config[read].v \o "-a")

IsLoad(x) == x # "evict"

\* the source loads so far, in order, without the cache evictions
Loads == SelectSeq(loadLog, IsLoad)

RemoteFailed(response) ==
    \/ response.kind = "transport"
    \/ response.status < 200
    \/ response.status >= 300

\* C13: no ConfigManager get returns an error, and when the remote endpoint
\* answered the pass's request with a non-2xx status or the transport failed the
\* remote contribution is empty and the merged config is the merge of the file
\* and env mappings alone.
C13_RemoteFailureAbsorbed ==
    kind = "ConfigManager" =>
        /\ \A h \in hist : h.res.ok
        /\ \A t \in Threads :
              (/\ pc[t] \in {"merge", "resolve_deferred", "initialized"}
               /\ RemoteFailed(loadedFrom.val)) =>
                  /\ local[t].remote_config = EmptyMap
                  /\ JustMerged(t) =>
                        Obj(inner.config) =
                            merge_replace_arrays(
                                merge_replace_arrays(Obj(EmptyMap), Obj(local[t].file_config)),
                                Obj(local[t].env_config))

\* a get that sent the request and was answered HTTP 500 returned a value
C13_Witness ==
    /\ kind = "ConfigManager"
    /\ \A t \in Threads : pc[t] = "idle"
    /\ Len(requests) = 1
    /\ \E h \in hist :
          /\ h.from.some
          /\ h.from.val.kind = "response"
          /\ h.from.val.status = 500
          /\ h.res.ok
          /\ h.res.val.some

\* the directory the environment names does not exist, or it holds no
\* default.json, or its default.json does not parse
FileFails ==
    /\ "SMOOAI_ENV_CONFIG_DIR" \in DOMAIN env
    /\ LET dir == env["SMOOAI_ENV_CONFIG_DIR"]
           default == join(dir, "default.json")
       IN \/ dir \notin fs.dirs
          \/ default \notin DOMAIN fs.files
          \/ fs.files[default].kind # "json"

\* C14: a file-level failure (directory not found, default.json missing or not
\* parsing) does not abort a ConfigManager initialization pass: no get returns an
\* error, the env load follows the failed file load and the get leaves the manager
\* initialized; in the LocalConfigManager the failure is returned to the caller
\* of every get and the manager stays uninitialized.
C14_FileFailurePropagation ==
    FileFails =>
        /\ kind = "ConfigManager" =>
              /\ \A h \in hist : h.res.ok
              /\ hist # {} => (epoch > 0 \/ inner.initialized)
              /\ \A i \in DOMAIN Loads :
                    Loads[i] = "file" =>
                        \/ i < Len(Loads) /\ Loads[i + 1] = "env"
                        \/ i = Len(Loads) /\ \E t \in Threads : pc[t] = "load_env"
        /\ kind = "LocalConfigManager" =>
              /\ \A h \in hist : ~h.res.ok
              /\ ~linner.initialized
              /\ \A i \in DOMAIN Loads : Loads[i] = "file"

\* a ConfigManager whose file load failed has returned a value from a get
C14_Witness ==
    /\ kind = "ConfigManager"
    /\ FileFails
    /\ \A t \in Threads : pc[t] = "idle"
    /\ inner.initialized
    /\ \E h \in hist : h.res.ok /\ h.res.val.some

\* C14 as the spec states it: a file-level failure is returned as an error to the
\* caller of a ConfigManager get.
C14_FileFailureAbortsGet ==
    (kind = "ConfigManager" /\ FileFails) => \A h \in hist : ~h.res.ok

\* C15: when the file load of a ConfigManager fails, the pass goes on with an
\* empty file contribution (the merged config is the merge of the remote and env
\* mappings), every get returns Ok, and a get of a key that no source defines
\* returns Ok(None).
C15_FileFailureAbsorbed ==
    (kind = "ConfigManager" /\ FileFails) =>
        /\ \A t \in Threads :
              /\ pc[t] \in {"load_env", "fetch_remote", "merge", "resolve_deferred",
                            "initialized"} => local[t].file_config = EmptyMap
              /\ JustMerged(t) =>
                    Obj(inner.config) =
                        merge_replace_arrays(
                            merge_replace_arrays(Obj(EmptyMap), Obj(local[t].remote_config)),
                            Obj(local[t].env_config))
        /\ \A h \in hist :
              /\ h.res.ok
              /\ h.key = "MISSING" => h.res = Ok(None)

\* the config directory holds no default.json and a get of a key no source
\* defines has returned Ok(None)
C15_Witness ==
    /\ kind = "ConfigManager"
    /\ "SMOOAI_ENV_CONFIG_DIR" \in DOMAIN env
    /\ env["SMOOAI_ENV_CONFIG_DIR"] \in fs.dirs
    /\ join(env["SMOOAI_ENV_CONFIG_DIR"], "default.json") \notin DOMAIN fs.files
    /\ \A t \in Threads : pc[t] = "idle"
    /\ inner.initialized
    /\ \E h \in hist : h.key \notin DOMAIN inner.config /\ h.res = Ok(None)

\* C16: a LocalConfigManager get whose initialization fails returns the error
\* and leaves Inner as it was, uninitialized, without file or env config and
\* without a cache entry; every later get loads again, so with a failing file
\* source there are as many file loads as gets made.
C16_FailedInitRetried ==
    /\ [][\A t \in Threads :
             (kind = "LocalConfigManager" /\ pc[t] = "initialize" /\ pc'[t] = "idle") =>
                 /\ linner' = linner
                 /\ linner'.initialized = FALSE
                 /\ linner'.file_config = None
                 /\ linner'.env_config = None
                 /\ \A s \in Tiers : arg[t].key \notin DOMAIN linner'[TierCache[s]]
                 /\ loadLog' = Append(loadLog, "file")
                 /\ \E h \in hist' : h.key = arg[t].key /\ ~h.res.ok]_vars
    /\ []((/\ kind = "LocalConfigManager"
           /\ FileFails
           /\ epoch = 0
           /\ \A t \in Threads : pc[t] = "idle") =>
              /\ FileLoads = calls
              /\ linner.initialized = FALSE
              /\ \A s \in Tiers : linner[TierCache[s]] = EmptyMap)

\* two gets in a row have failed, each after its own file load
C16_Witness ==
    /\ kind = "LocalConfigManager"
    /\ FileFails
    /\ epoch = 0
    /\ calls = 2
    /\ \A t \in Threads : pc[t] = "idle"
    /\ FileLoads = 2
    /\ linner.initialized = FALSE
    /\ linner.file_config = None
    /\ \E h \in hist : ~h.res.ok

\* the value a remote parameter resolves to: the constructor's when given, else
\* the environment variable's, else none
Resolved(constructor_value, env_var) ==
    IF constructor_value # None THEN constructor_value
    ELSE IF env_var \in DOMAIN env THEN Some(env[env_var])
    ELSE None

\* C17: the remote step resolves the API key, the base URL and the org id each
\* on its own, the constructor's value before the environment variable; it
\* issues one request, carrying the three resolved values, exactly when all three
\* resolve; when one is unresolved it issues none, the remote contribution is
\* empty, and the get that initializes returns no error and leaves the manager
\* initialized.
C17_CredentialResolution ==
    /\ [][\A t \in Threads :
             (kind = "ConfigManager" /\ pc[t] = "fetch_remote" /\ pc'[t] # pc[t]) =>
                 LET api_key == Resolved(mgr.api_key, "SMOOAI_CONFIG_API_KEY")
                     base_url == Resolved(mgr.base_url, "SMOOAI_CONFIG_API_URL")
                     org_id == Resolved(mgr.org_id, "SMOOAI_CONFIG_ORG_ID")
                 IN IF api_key # None /\ base_url # None /\ org_id # None
                    THEN /\ Len(requests') = Len(requests) + 1
                         /\ SubSeq(requests', 1, Len(requests)) = requests
                         /\ requests'[Len(requests')].bearer = api_key.val
                         /\ requests'[Len(requests')].org = org_id.val
                         /\ requests'[Len(requests')].base = trim_end_slash(base_url.val)
                    ELSE /\ requests' = requests
                         /\ local'[t].remote_config = EmptyMap]_vars
    /\ [](kind = "ConfigManager" =>
             /\ \A h \in hist : h.res.ok
             /\ (/\ \E p \in {<<mgr.api_key, "SMOOAI_CONFIG_API_KEY">>,
                              <<mgr.base_url, "SMOOAI_CONFIG_API_URL">>,
                              <<mgr.org_id, "SMOOAI_CONFIG_ORG_ID">>} :
                        Resolved(p[1], p[2]) = None
                 /\ hist # {}
                 /\ epoch = 0) =>
                    (requests = <<>> /\ inner.initialized))

\* a request went out with the constructor's API key, base URL and org id while
\* the environment variables hold other values
C17_Witness ==
    /\ kind = "ConfigManager"
    /\ mgr.api_key # None /\ mgr.base_url # None /\ mgr.org_id # None
    /\ "SMOOAI_CONFIG_API_KEY" \in DOMAIN env
    /\ env["SMOOAI_CONFIG_API_KEY"] # mgr.api_key.val
    /\ "SMOOAI_CONFIG_API_URL" \in DOMAIN env
    /\ env["SMOOAI_CONFIG_API_URL"] # mgr.base_url.val
    /\ "SMOOAI_CONFIG_ORG_ID" \in DOMAIN env
    /\ env["SMOOAI_CONFIG_ORG_ID"] # mgr.org_id.val
    /\ Len(requests) = 1
    /\ requests[1].bearer = mgr.api_key.val
    /\ requests[1].org = mgr.org_id.val
    /\ \E h \in hist : h.res.ok

\* the environment name of config_manager.rs 164-172: the constructor's, else
\* SMOOAI_CONFIG_ENV, else "development"
EnvironmentName ==
    IF mgr.environment # None THEN mgr.environment.val
    ELSE IF "SMOOAI_CONFIG_ENV" \in DOMAIN env THEN env["SMOOAI_CONFIG_ENV"]
    ELSE "development"

\* C18: within a ConfigManager initialization pass the one resolved environment
\* name is the environment parameter of every remote request, names the
\* environment file that is merged into the file config, and is the value of the
\* built-in ENV key of the file config and of the merged config.
C18_SingleEnvironmentName ==
    kind = "ConfigManager" =>
        /\ \A i \in DOMAIN requests : requests[i].environment = EnvironmentName
        /\ \A t \in Threads :
              /\ (/\ pc[t] \in {"load_env", "fetch_remote", "merge"}
                  /\ local[t].file_config # EmptyMap) =>
                     /\ local[t].file_config["ENV"] = Str(EnvironmentName)
                     /\ "SMOOAI_ENV_CONFIG_DIR" \in DOMAIN env =>
                        LET named == join(env["SMOOAI_ENV_CONFIG_DIR"],
                                          EnvironmentName \o ".json")
                        IN named \in DOMAIN fs.files =>
                              \A k \in DOMAIN fs.files[named].json.v :
                                  /\ k \in DOMAIN local[t].file_config
                                  /\ local[t].file_config[k] = fs.files[named].json.v[k]
              /\ JustMerged(t) => inner.config["ENV"] = Str(EnvironmentName)

\* r is what merging mapping or non-mapping s into t must give
RECURSIVE IsMerge(_, _, _)
IsMerge(r, t, s) ==
    IF s.t # "obj" THEN r = s
    ELSE LET tkeys == IF t.t = "obj" THEN DOMAIN t.v ELSE {}
         IN /\ r.t = "obj"
            /\ DOMAIN r.v = tkeys \cup DOMAIN s.v
            /\ \A k \in tkeys \ DOMAIN s.v : r.v[k] = t.v[k]
            /\ \A k \in DOMAIN s.v \ tkeys : r.v[k] = s.v[k]
            /\ \A k \in tkeys \cap DOMAIN s.v : IsMerge(r.v[k], t.v[k], s.v[k])

\* C19: for every target and every mapping source, merge_replace_arrays returns
\* a mapping over the union of target's keys (none when target is not a mapping)
\* and source's keys; a key of target alone keeps target's value, a key of source
\* alone has source's value, a key of both has the merge of the two values, at
\* every depth.
C19_MappingMerge ==
    (mResult # None /\ mSource.t = "obj") => IsMerge(mResult.val, mTarget, mSource)

\* both arguments hold a mapping under "a"; the merged "a" has a key from each
C19_Witness ==
    /\ mResult # None
    /\ mTarget.t = "obj" /\ mSource.t = "obj"
    /\ "a" \in DOMAIN mTarget.v /\ "a" \in DOMAIN mSource.v
    /\ "b" \in DOMAIN mTarget.v /\ "b" \notin DOMAIN mSource.v
    /\ mTarget.v["a"].t = "obj" /\ DOMAIN mTarget.v["a"].v = {"b"}
    /\ mSource.v["a"].t = "obj" /\ DOMAIN mSource.v["a"].v = {"a"}
    /\ DOMAIN mResult.val.v = {"a", "b"}
    /\ DOMAIN mResult.val.v["a"].v = {"a", "b"}
    /\ mResult.val.v["a"].v["b"] = mTarget.v["a"].v["b"]
    /\ mResult.val.v["b"] = mTarget.v["b"]

\* every array, scalar and null of s, at any depth, is the value at the same
\* place of r
RECURSIVE NonMappingsKept(_, _)
NonMappingsKept(r, s) ==
    IF s.t # "obj" THEN r = s
    ELSE /\ r.t = "obj"
         /\ \A k \in DOMAIN s.v : k \in DOMAIN r.v /\ NonMappingsKept(r.v[k], s.v[k])

\* C20: for every target, merge_replace_arrays of a source that is an array
\* (empty or not), a number or null returns the source itself, and inside a
\* mapping source every such value replaces whatever target holds at that key.
C20_NonMappingReplaces ==
    mResult # None =>
        /\ mSource.t # "obj" => mResult.val = mSource
        /\ NonMappingsKept(mResult.val, mSource)

\* the empty array under "a" of source has replaced a non-empty array of target
C20_Witness ==
    /\ mResult # None
    /\ mTarget.t = "obj" /\ mSource.t = "obj"
    /\ "a" \in DOMAIN mTarget.v /\ mTarget.v["a"] = Arr(<<Num(2)>>)
    /\ "a" \in DOMAIN mSource.v /\ mSource.v["a"] = Arr(<<>>)
    /\ "b" \in DOMAIN mTarget.v /\ mTarget.v["b"].t = "arr"
    /\ "b" \in DOMAIN mSource.v /\ mSource.v["b"] = Null
    /\ mResult.val = mSource

\* the requests for one key of one environment sent so far
ValueRequests(environment, key) ==
    {i \in DOMAIN requests :
        /\ requests[i].endpoint = "value"
        /\ requests[i].environment = environment
        /\ requests[i].key = utf8_percent_encode(key)}

\* the environment a get_value argument stands for
ArgEnvironment(environment) ==
    IF environment = None \/ environment.val = "" THEN client.default_environment
    ELSE environment.val

\* an entry under ck that has not expired: no expiry, or now not after it
Unexpired(ck) ==
    /\ ck \in DOMAIN client.cache
    /\ \/ client.cache[ck].expires_at = None
       \/ now <= client.cache[ck].expires_at.val

\* C21: a ConfigClient get_value that finds an unexpired entry under
\* "{env}:{key}" returns the entry's value, sends no request and leaves the
\* client as it is; a client without TTL stores entries without expiry, an
\* entry of it leaves the cache only by an invalidation, and as long as the
\* server answers and nothing is invalidated no (env, key) is requested twice.
C21_CachedWithoutRequest ==
    /\ [][\A key \in ClientKeys, environment \in EnvironmentArgs :
             (GetValue(key, environment)
                 /\ Unexpired(ArgEnvironment(environment) \o ":" \o key)) =>
                 /\ requests' = requests
                 /\ client' = client
                 /\ pc'[Owner] = "idle"
                 /\ local'[Owner].val.cached
                 /\ local'[Owner].val.res =
                       Ok(client.cache[ArgEnvironment(environment) \o ":" \o key].value)]_vars
    /\ [][(kind = "ConfigClient" /\ client.cache_ttl = None) =>
             \A ck \in DOMAIN client.cache :
                 \/ ck \in DOMAIN client'.cache /\ client'.cache[ck] = client.cache[ck]
                 \/ epoch' = epoch + 1
                 \/ pc[Owner] = "get_all_values"]_vars
    /\ []((kind = "ConfigClient" /\ client.cache_ttl = None) =>
             /\ \A ck \in DOMAIN client.cache : client.cache[ck].expires_at = None
             /\ (epoch = 0 /\ updates = 0 /\ server = ClientSrvOk) =>
                   \A environment \in ClientEnvNames, key \in ClientKeys :
                       Cardinality(ValueRequests(environment, key)) <= 1)

\* a client without TTL has answered the second of two get_value calls for one
\* key from the cache, after one request
C21_Witness ==
    /\ kind = "ConfigClient"
    /\ client.cache_ttl = None
    /\ pc[Owner] = "idle"
    /\ calls = 2
    /\ epoch = 0
    /\ Len(requests) = 1
    /\ requests[1].endpoint = "value"
    /\ local[Owner] # None
    /\ local[Owner].val.cached
    /\ local[Owner].val.res.ok
    /\ local[Owner].val.environment = requests[1].environment
    /\ utf8_percent_encode(local[Owner].val.key) = requests[1].key

\* C22: a get_value of a client with TTL that finds the entry under
\* "{env}:{key}" expired (now after expires_at) removes it and sends a request;
\* when the answer carries a value the entry is stored again with that value and
\* the expiry now + TTL.
C22_ExpiredEntryRefetched ==
    /\ [][\A key \in ClientKeys, environment \in EnvironmentArgs :
             LET ck == ArgEnvironment(environment) \o ":" \o key
             IN (/\ GetValue(key, environment)
                 /\ ck \in DOMAIN client.cache
                 /\ client.cache[ck].expires_at # None
                 /\ now > client.cache[ck].expires_at.val) =>
                    /\ Len(requests') = Len(requests) + 1
                    /\ requests'[Len(requests')].endpoint = "value"
                    /\ requests'[Len(requests')].environment = ArgEnvironment(environment)
                    /\ requests'[Len(requests')].key = utf8_percent_encode(key)
                    /\ ck \notin DOMAIN client'.cache
                    /\ pc'[Owner] = "get_value"]_vars
    /\ [][(kind = "ConfigClient" /\ pc[Owner] = "get_value" /\ pc'[Owner] = "idle"
              /\ server.kind = "response" /\ server.body = "documented") =>
             LET ck == arg[Owner].environment \o ":" \o arg[Owner].key
                 fresh == ServerValue(arg[Owner].environment, arg[Owner].key, updates)
             IN /\ ck \in DOMAIN client'.cache
                /\ client'.cache[ck].value = fresh
                /\ client'.cache[ck].expires_at =
                      (IF client.cache_ttl = None THEN None
                       ELSE Some(now + client.cache_ttl.val))
                /\ local'[Owner].val.res = Ok(fresh)
                /\ ~local'[Owner].val.cached]_vars

\* a lookup, a wait past the TTL and a second lookup of the same key: two
\* requests, and the entry holds the server's new value with a new expiry
C22_Witness ==
    /\ kind = "ConfigClient"
    /\ client.cache_ttl = Some(1)
    /\ pc[Owner] = "idle"
    /\ calls = 2
    /\ now = 2
    /\ updates = 1
    /\ Len(requests) = 2
    /\ requests[1] = requests[2]
    /\ requests[1].endpoint = "value"
    /\ local[Owner] # None
    /\ ~local[Owner].val.cached
    /\ local[Owner].val.res =
          Ok(ServerValue(local[Owner].val.environment, local[Owner].val.key, 1))
    /\ LET ck == local[Owner].val.environment \o ":" \o local[Owner].val.key
       IN /\ ck \in DOMAIN client.cache
          /\ client.cache[ck].expires_at = Some(3)

\* C23: whatever get_value returns for an (environment, key) pair is a value the
\* server holds for that pair, never one cached for another pair, and the first
\* get_value of a pair that no get_all_values has covered is answered by a
\* request of its own.
C23_PairsSeparate ==
    (kind = "ConfigClient" /\ local[Owner] # None
        /\ local[Owner].val.op = "get_value" /\ local[Owner].val.res.ok) =>
        /\ \E version \in 0..updates :
              local[Owner].val.res.val =
                  ServerValue(local[Owner].val.environment, local[Owner].val.key, version)
        /\ (\A i \in DOMAIN requests : requests[i].endpoint = "value") =>
              ValueRequests(local[Owner].val.environment, local[Owner].val.key) # {}

\* C24: invalidate_cache_for_environment(env) removes the entries that were
\* stored for environment env and keeps every other entry as it is.
C24_InvalidatesOneEnvironment ==
    [][\A environment \in ClientEnvNames :
          InvalidateCacheForEnvironment(environment) =>
              \A ck \in DOMAIN client.cache :
                  IF stored[ck][1] = environment
                  THEN ck \notin DOMAIN client'.cache
                  ELSE ck \in DOMAIN client'.cache /\ client'.cache[ck] = client.cache[ck]]_vars

\* C25: from an Ok answer of get_all_values(env) until an invalidation or the
\* expiry of the entries, get_value(key, env) for a key of that answer sends no
\* request and returns the answer's value for the key.
C25_GetAllServesGetValue ==
    [][\A key \in ClientKeys, environment \in EnvironmentArgs :
          GetValue(key, environment) =>
              \A h \in hist :
                  (/\ h.environment = ArgEnvironment(environment)
                   /\ h.key = key
                   /\ (h.expires_at = None \/ now <= h.expires_at.val)) =>
                      /\ requests' = requests
                      /\ local'[Owner].val.res = Ok(h.value)]_vars

\* C26: a get_value that the server answers with a status outside 200..299
\* returns an error and leaves no cache entry for the (env, key).
C26_ErrorStatusIsError ==
    [][(kind = "ConfigClient" /\ pc[Owner] = "get_value" /\ pc'[Owner] = "idle"
           /\ server.kind = "response" /\ server.status \notin 200..299) =>
          /\ ~local'[Owner].val.res.ok
          /\ (arg[Owner].environment \o ":" \o arg[Owner].key) \notin DOMAIN client'.cache]_vars

\* the file list the environment snapshot asks for, in order: default.json,
\* local.json when IS_LOCAL is true, then the environment's file, its provider
\* file when a provider is known and its region file when the region is known too
ExpectedFiles ==
    LET name == IF "SMOOAI_CONFIG_ENV" \in DOMAIN env THEN env["SMOOAI_CONFIG_ENV"]
                ELSE "development"
        provider == IF "AWS_REGION" \in DOMAIN env THEN "aws"
                    ELSE IF "SMOOAI_CONFIG_CLOUD_PROVIDER" \in DOMAIN env
                    THEN env["SMOOAI_CONFIG_CLOUD_PROVIDER"]
                    ELSE "unknown"
        region == IF "AWS_REGION" \in DOMAIN env THEN env["AWS_REGION"] ELSE "unknown"
    IN <<"default.json">>
       \o (IF "IS_LOCAL" \in DOMAIN env /\ env["IS_LOCAL"] = "true"
           THEN <<"local.json">> ELSE <<>>)
       \o <<name \o ".json">>
       \o (IF provider # "unknown" THEN <<name \o "." \o provider \o ".json">> ELSE <<>>)
       \o (IF provider # "unknown" /\ region # "unknown"
           THEN <<name \o "." \o provider \o "." \o region \o ".json">> ELSE <<>>)

\* the positions of ExpectedFiles whose file is in the directory
PresentFiles == {i \in DOMAIN ExpectedFiles : join("/cfg", ExpectedFiles[i]) \in DOMAIN fs.files}

\* C27: the File Loader's result holds the own key of exactly the files of the
\* list that are present, at the top and inside the nested mapping (values of
\* earlier files are inherited), and the key every file sets has the value of
\* the last present file of the list, at the top and in the nested mapping (a
\* later file overrides an earlier one).
C27_FileMergeOrder ==
    (kind = "file_config" /\ fileResult # None /\ fileResult.val.ok) =>
        LET result == fileResult.val.val
            last == ExpectedFiles[CHOOSE i \in PresentFiles : \A j \in PresentFiles : j <= i]
            own == {ExpectedFiles[i] : i \in PresentFiles}
        IN /\ PresentFiles # {}
           /\ DOMAIN result \ BuiltinKeys = own \cup {"last", "N"}
           /\ \A name \in own : result[name] = Bool(TRUE)
           /\ result["last"] = Str(last)
           /\ result["N"].t = "obj"
           /\ DOMAIN result["N"].v = own \cup {"last"}
           /\ result["N"].v["last"] = Str(last)

\* all five files were merged: IS_LOCAL true, environment test, provider and
\* region known, and the region file has the last word
C27_Witness ==
    /\ kind = "file_config"
    /\ fileResult # None
    /\ fileResult.val.ok
    /\ Len(ExpectedFiles) = 5
    /\ Cardinality(PresentFiles) = 5
    /\ fileResult.val.val["last"] = Str("test.aws.eu.json")
    /\ "local.json" \in DOMAIN fileResult.val.val["N"].v

\* C28: the File Loader returns an error exactly when default.json is absent
\* or a present file of the list does not parse; the error for an absent
\* default.json names default.json, the error for a file that does not parse
\* names the path of the first such file of the list; absent optional files and
\* files outside the list cause no error.
C28_FileErrors ==
    (kind = "file_config" /\ fileResult # None) =>
        LET bad == {i \in PresentFiles :
                       fs.files[join("/cfg", ExpectedFiles[i])].kind = "garbage"}
            result == fileResult.val
        IN IF 1 \notin PresentFiles
           THEN ~result.ok /\ result.err = "Required default.json not found"
           ELSE IF bad # {}
           THEN /\ ~result.ok
                /\ result.err = "Error parsing "
                       \o join("/cfg", ExpectedFiles[CHOOSE i \in bad : \A j \in bad : i <= j])
           ELSE result.ok

\* default.json is there, optional files of the list are absent and a file
\* outside the list does not parse: the result is Ok
C28_Witness ==
    /\ kind = "file_config"
    /\ fileResult # None
    /\ fileResult.val.ok
    /\ Len(ExpectedFiles) = 3
    /\ PresentFiles = {1}
    /\ "/cfg/test.json" \in DOMAIN fs.files
    /\ fs.files["/cfg/test.json"].kind = "garbage"

\* C29: every value a LocalConfigManager get returned is the file config's value
\* for the key when the file config has the key, whatever the env config holds
\* for it; it is the env config's value only when the file config lacks the
\* key, and absent when both lack it.
C29_FileBeforeEnv ==
    (kind = "LocalConfigManager" /\ linner.initialized) =>
        \A h \in hist :
            h.res.ok =>
                h.res.val =
                    (IF h.key \in DOMAIN linner.file_config.val
                     THEN Some(linner.file_config.val[h.key])
                     ELSE IF h.key \in DOMAIN linner.env_config.val
                     THEN Some(linner.env_config.val[h.key])
                     ELSE None)

\* file and env config hold different values for a key and a get has returned
\* the file's
C29_Witness ==
    /\ kind = "LocalConfigManager"
    /\ linner.initialized
    /\ \A t \in Threads : pc[t] = "idle"
    /\ \E h \in hist :
          /\ h.key \in DOMAIN linner.file_config.val
          /\ h.key \in DOMAIN linner.env_config.val
          /\ linner.file_config.val[h.key] # linner.env_config.val[h.key]
          /\ h.res = Ok(Some(linner.file_config.val[h.key]))

\* C30: a ConfigManager get on tier T that finds, in T's cache, an entry for its
\* key with now strictly before expires_at returns the entry's value in that
\* step: the manager's state (flag, merged config, the three caches with their
\* expiries) is as before, nothing is loaded, evicted or requested, and the clock
\* and the directory cache are untouched.
C30_CacheHitChangesNothing ==
    [][\A t \in Threads :
          (/\ kind = "ConfigManager"
           /\ pc[t] = "check_cache"
           /\ pc'[t] # pc[t]
           /\ arg[t].key \in DOMAIN inner[TierCache[arg[t].sel]]
           /\ now < inner[TierCache[arg[t].sel]][arg[t].key].expires_at) =>
              /\ pc'[t] = "idle"
              /\ inner' = inner
              /\ loadLog' = loadLog
              /\ requests' = requests
              /\ dirCache' = dirCache
              /\ loadedFrom' = loadedFrom
              /\ now' = now
              /\ \E h \in hist' :
                    /\ h.key = arg[t].key
                    /\ h.epoch = epoch
                    /\ h.res = Ok(Some(inner[TierCache[arg[t].sel]][arg[t].key].value))]_vars

\* two gets have returned, both of the one key that is cached and on the one
\* tier that has an entry, the second before the entry's expiry: one file load,
\* no eviction, the entry still as stored
C30_Witness ==
    /\ kind = "ConfigManager"
    /\ \A t \in Threads : pc[t] = "idle"
    /\ calls = 2
    /\ epoch = 0
    /\ now = 1
    /\ FileLoads = 1
    /\ Count(loadLog, "evict") = 0
    /\ Cardinality(hist) = 1
    /\ \E s \in Tiers :
          /\ DOMAIN inner[TierCache[s]] # {}
          /\ \A o \in Tiers \ {s} : inner[TierCache[o]] = EmptyMap
          /\ \A k \in DOMAIN inner[TierCache[s]] :
                /\ inner[TierCache[s]][k].expires_at = 2
                /\ \E h \in hist : h.key = k /\ h.res = Ok(Some(inner[TierCache[s]][k].value))

\* what resolve_deferred is to leave of config: every deferred key holds its
\* resolver's result on config, every other key its value in config
ResolvedConfig(config, deferred) ==
    [k \in DOMAIN config \cup DOMAIN deferred |->
        IF k \in DOMAIN deferred THEN apply_resolver(deferred[k], config) ELSE config[k]]

\* C31: the initialized flag of a ConfigManager goes from false to true only by
\* the last step of a get whose pass loaded, merged and resolved everything,
\* and from true to false only by invalidate(); while the manager is
\* initialized no step other than an invalidate (no get, no cache expiry, no
\* passing of time) changes the flag or the merged config.
C31_Lifecycle ==
    [][kind = "ConfigManager" =>
          /\ (~inner.initialized /\ inner'.initialized) =>
                \E t \in Threads :
                    /\ arg[t].op = "get"
                    /\ pc[t] = "initialized"
                    /\ lock = t
                    /\ local[t].pending = {}
                    /\ inner.config = ResolvedConfig(PreDeferred(t), mgr.deferred)
                    /\ inner'.config = inner.config
          /\ (inner.initialized /\ ~inner'.initialized) =>
                \E t \in Threads :
                    /\ arg[t].op = "invalidate"
                    /\ pc[t] = "inv_lock"
                    /\ pc'[t] = "idle"
                    /\ epoch' = epoch + 1
          /\ (inner.initialized /\ epoch' = epoch) =>
                /\ inner'.initialized
                /\ inner'.config = inner.config]_vars

\* a manager was initialized by a get, served a get after a cache entry
\* expired, and was then invalidated
C31_Witness ==
    /\ kind = "ConfigManager"
    /\ ~inner.initialized
    /\ epoch = 1
    /\ Count(loadLog, "evict") = 1
    /\ Cardinality(hist) >= 1
    /\ \A t \in Threads : pc[t] = "idle"

\* C32: whichever deferred definition resolve_deferred invokes next, the value
\* every definition still to be invoked will return stays the same, so the
\* order of the invocations changes no key's final value: the map the function
\* leaves is the one fixed by the snapshot and the definitions alone.
C32_OrderIndependent ==
    /\ [][\A t \in Threads :
             (kind = "resolve_deferred" /\ pc[t] = "resolve_deferred") =>
                 \A k \in local'[t].pending :
                     apply_resolver(mgr.deferred[k], resolver_input(t)') =
                         apply_resolver(mgr.deferred[k], resolver_input(t))]_vars
    /\ [](\A t \in Threads :
             (kind = "resolve_deferred" /\ pc[t] = "initialized") =>
                 inner.config = ResolvedConfig(local[t].snapshot, mgr.deferred))

\* all definitions are invoked, one of them reads a key that another one
\* wrote, and it would return another value on the map as it is now
C32_Witness ==
    \E t \in Threads :
        /\ kind = "resolve_deferred"
        /\ pc[t] = "initialized"
        /\ \E a, b \in DOMAIN mgr.deferred :
              /\ a # b
              /\ mgr.deferred[b].key = a
              /\ inner.config[a] # UnwrapOr(MapGet(local[t].snapshot, a), Null)
              /\ inner.config[b] # apply_resolver(mgr.deferred[b], inner.config)

\* C33: resolve_deferred takes its snapshot from the config it is handed and
\* never changes it; when it returns, every deferred key holds its resolver's
\* result on the snapshot, whatever the config held at that key before, every
\* other key holds the value it had, no further key exists, and with no
\* definition the config is the one handed in.
C33_DeferredOverwrites ==
    /\ [][\A t \in Threads :
             kind = "resolve_deferred" =>
                 IF pc[t] = "resolve_deferred_call"
                 THEN local'[t].snapshot = inner.config /\ inner'.config = inner.config
                 ELSE local'[t].snapshot = local[t].snapshot]_vars
    /\ [](\A t \in Threads :
             (kind = "resolve_deferred" /\ pc[t] = "initialized") =>
                 /\ DOMAIN inner.config = DOMAIN local[t].snapshot \cup DOMAIN mgr.deferred
                 /\ \A k \in DOMAIN mgr.deferred :
                       inner.config[k] = apply_resolver(mgr.deferred[k], local[t].snapshot)
                 /\ \A k \in DOMAIN local[t].snapshot \ DOMAIN mgr.deferred :
                       inner.config[k] = local[t].snapshot[k]
                 /\ mgr.deferred = EmptyMap => inner.config = local[t].snapshot)

\* a deferred key replaced the value the config held for it, next to a key
\* without a definition
C33_Witness ==
    \E t \in Threads :
        /\ kind = "resolve_deferred"
        /\ pc[t] = "initialized"
        /\ \E k \in DOMAIN mgr.deferred \cap DOMAIN local[t].snapshot :
              inner.config[k] # local[t].snapshot[k]
        /\ DOMAIN local[t].snapshot \ DOMAIN mgr.deferred # {}

\* the value each built-in key is to have: computed from the environment
\* snapshot alone
BuiltinValue(k) ==
    CASE k = "ENV" -> Str(IF "SMOOAI_CONFIG_ENV" \in DOMAIN env
                          THEN env["SMOOAI_CONFIG_ENV"] ELSE "development")
      [] k = "IS_LOCAL" -> Bool(IF "IS_LOCAL" \in DOMAIN env
                                THEN coerce_boolean(env["IS_LOCAL"]) ELSE FALSE)
      [] k = "REGION" -> Str(get_cloud_region_from_env(env).region)
      [] OTHER -> Str(get_cloud_region_from_env(env).provider)

\* C34: in every initialized ConfigManager each of ENV, IS_LOCAL, REGION and
\* CLOUD_PROVIDER that has no deferred definition is present in the merged
\* config with the value computed from the environment snapshot, whatever the
\* config files, the schema-matched environment variables and the remote
\* service supply under these names, and also when the file load failed.
C34_BuiltinKeys ==
    (kind = "ConfigManager" /\ inner.initialized) =>
        \A k \in BuiltinKeys \ DOMAIN mgr.deferred :
            /\ k \in DOMAIN inner.config
            /\ inner.config[k] = BuiltinValue(k)

\* an initialized manager whose config file, environment variables and remote
\* answer all give ENV another value than the one computed
C34_Witness ==
    /\ kind = "ConfigManager"
    /\ inner.initialized
    /\ \A t \in Threads : pc[t] = "idle"
    /\ "ENV" \in UnwrapOr(mgr.schema_keys, {})
    /\ "ENV" \in DOMAIN env /\ Str(env["ENV"]) # BuiltinValue("ENV")
    /\ ~FileFails
    /\ fs.files[join(env["SMOOAI_ENV_CONFIG_DIR"], "default.json")].json.v["ENV"]
           # BuiltinValue("ENV")
    /\ loadedFrom.some
    /\ "ENV" \in DOMAIN remote_values(loadedFrom.val)
    /\ remote_values(loadedFrom.val)["ENV"] # BuiltinValue("ENV")
    /\ Len(requests) >= 1

\* the level limit of a search: the variable's number, else 5
LevelsUpLimit(e) ==
    IF "SMOOAI_CONFIG_LEVELS_UP_LIMIT" \in DOMAIN e
       /\ ParseUsize(e["SMOOAI_CONFIG_LEVELS_UP_LIMIT"]).some
    THEN ParseUsize(e["SMOOAI_CONFIG_LEVELS_UP_LIMIT"]).val
    ELSE 5

\* the directory n levels above dir, if there is one
RECURSIVE Ancestor(_, _)
Ancestor(dir, n) ==
    IF n = 0 THEN Some(dir)
    ELSE IF parent(dir).some THEN Ancestor(parent(dir).val, n - 1)
    ELSE None

HasCandidate(fsys, dir) ==
    \E i \in DOMAIN candidates : join(dir, candidates[i]) \in fsys.dirs

CandidateAt(fsys, dir) ==
    LET i == CHOOSE i \in DOMAIN candidates :
                 /\ join(dir, candidates[i]) \in fsys.dirs
                 /\ \A j \in 1..(i - 1) : join(dir, candidates[j]) \notin fsys.dirs
    IN join(dir, candidates[i])

\* the levels above the working directory, within the limit, that hold a
\* well-known directory
WalkLevels(e, fsys) ==
    {n \in 1..LevelsUpLimit(e) :
        Ancestor(fsys.cwd, n).some /\ HasCandidate(fsys, Ancestor(fsys.cwd, n).val)}

CacheUsable(ignore_cache, fsys, cache, clock) ==
    /\ ~ignore_cache
    /\ cache.some
    /\ clock - cache.val.at < 3600
    /\ cache.val.dir \in fsys.dirs

\* the result of a search by the order of its strategies
ExpectedDirectory(ignore_cache, e, fsys, cache, clock) ==
    IF "SMOOAI_ENV_CONFIG_DIR" \in DOMAIN e
    THEN IF e["SMOOAI_ENV_CONFIG_DIR"] \in fsys.dirs
         THEN Ok(e["SMOOAI_ENV_CONFIG_DIR"])
         ELSE Err("SMOOAI_ENV_CONFIG_DIR does not exist")
    ELSE IF CacheUsable(ignore_cache, fsys, cache, clock) THEN Ok(cache.val.dir)
    ELSE IF HasCandidate(fsys, fsys.cwd) THEN Ok(CandidateAt(fsys, fsys.cwd))
    ELSE IF WalkLevels(e, fsys) # {}
    THEN LET n == CHOOSE n \in WalkLevels(e, fsys) : \A m \in WalkLevels(e, fsys) : n <= m
         IN Ok(CandidateAt(fsys, Ancestor(fsys.cwd, n).val))
    ELSE Err("Could not find config directory")

\* C35: when SMOOAI_ENV_CONFIG_DIR is set, a search returns that directory if
\* it exists and fails otherwise, without trying anything else; when it is not
\* set, the search returns the first directory found by, in this order, the
\* cache (unless ignored, younger than one hour, still a directory), the
\* well-known names in the working directory, and the parents nearest first up
\* to the level limit (the variable's number, else 5), and fails only if none
\* of these finds one.
C35_DirectoryResolution ==
    [][(kind = "find_config_directory" /\ calls' = calls + 1) =>
          fileResult' = Some(ExpectedDirectory(arg'["t1"].ignore_cache, env', fs,
                                               dirCache, now))]_vars

\* a search without override and with a stale cache has found, two levels up,
\* the directory a search limited to one level does not reach, and cached it
C35_Witness ==
    /\ kind = "find_config_directory"
    /\ fs.cwd = "/w/app/pkg"
    /\ "SMOOAI_ENV_CONFIG_DIR" \notin DOMAIN env
    /\ LevelsUpLimit(env) = 5
    /\ ~HasCandidate(fs, fs.cwd)
    /\ WalkLevels(env, fs) = {2}
    /\ fileResult = Some(Ok("/w/.smooai-config"))
    /\ dirCache = Some([dir |-> "/w/.smooai-config", at |-> now])
    /\ now = CONFIG_DIR_TTL_SECS
    /\ ~arg["t1"].ignore_cache

\* C35 as the spec states it: a search fails only if none of the strategies
\* finds a directory.
C35_FailsOnlyIfNoneFound ==
    [][(kind = "find_config_directory" /\ calls' = calls + 1 /\ ~fileResult'.val.ok) =>
          /\ "SMOOAI_ENV_CONFIG_DIR" \in DOMAIN env' =>
                env'["SMOOAI_ENV_CONFIG_DIR"] \notin fs.dirs
          /\ ~CacheUsable(arg'["t1"].ignore_cache, fs, dirCache, now)
          /\ ~HasCandidate(fs, fs.cwd)
          /\ WalkLevels(env', fs) = {}]_vars

\* the parameters of a search
SearchParameters(cwd, e) == <<cwd, LevelsUpLimit(e)>>

\* C36: a search receives a directory other than the one its own strategies
\* find only from a cache entry written by a search with the same working
\* directory and level limit, younger than one hour and still a directory.
C36_CacheKeyedByParameters ==
    [][(/\ kind = "find_config_directory"
        /\ calls' = calls + 1
        /\ fileResult' # Some(find_config_directory_with_env(TRUE, env', fs, dirCache,
                                                             now).res)) =>
          /\ stored.some
          /\ SearchParameters(stored.val.cwd, stored.val.env) =
                 SearchParameters(fs.cwd, env')
          /\ now - dirCache.val.at < CONFIG_DIR_TTL_SECS
          /\ dirCache.val.dir \in fs.dirs]_vars

\* C37: all calls of the Env Loader on the same schema keys, prefix, type hints
\* and environment snapshot have returned the same mapping.
C37_EnvLoaderDeterministic ==
    kind = "find_and_process_env_config" => Cardinality(hist) <= 1

\* the three tier caches of ManagerInner
TierCaches == {cache_selector(tier) : tier \in Tiers}

\* C38: whenever no thread holds the ConfigManager's lock, under every
\* interleaving of gets and invalidates of its threads: an uninitialized
\* manager has an empty merged config and three empty tier caches, and every
\* entry of a tier cache, expired or not, holds the value the merged config
\* has for its key.
C38_CacheCoherence ==
    (kind = "ConfigManager" /\ lock = "free") =>
        /\ ~inner.initialized =>
              /\ inner.config = EmptyMap
              /\ \A c \in TierCaches : inner[c] = EmptyMap
        /\ \A c \in TierCaches :
              \A k \in DOMAIN inner[c] :
                  /\ k \in DOMAIN inner.config
                  /\ inner[c][k].value = inner.config[k]

\* two threads share the manager: after an invalidate it is initialized again
\* and holds a cache entry, nobody holds the lock and one thread's call is
\* still to take it
C38_Witness ==
    /\ kind = "ConfigManager"
    /\ Cardinality(Threads) = 2
    /\ lock = "free"
    /\ epoch = 1
    /\ inner.initialized
    /\ \E c \in TierCaches : inner[c] # EmptyMap
    /\ \E t \in Threads : pc[t] \in {"get_lock", "inv_lock"}

\* what the file source contributes to a pass: nothing when its load fails
FilePart ==
    IF FileFails THEN EmptyMap
    ELSE find_and_process_file_config_with_env(env, fs, dirCache, now).res.val

\* what the remote source contributed to the pass that fetched from answer
RemotePart(answer) ==
    IF RemoteFailed(answer) THEN EmptyMap ELSE remote_values(answer)

\* what the env source contributes
EnvPart ==
    CHOOSE m \in find_and_process_env_config_with_env(
                     UnwrapOr(mgr.schema_keys, {}), mgr.env_prefix, mgr.schema_types, env) :
        TRUE

\* C39: a ConfigManager pass ends with initialized = true also when its file
\* load or its remote fetch failed; while the manager stays initialized no
\* get, not even one after a cache entry expired, loads a source or sends a
\* request again, and the merged config stays the one built without the
\* failed source's contribution, whatever the remote service answers by now,
\* until invalidate() is called.
C39_FailureSticky ==
    /\ [](kind = "ConfigManager" =>
             /\ \A t \in Threads : pc[t] = "lookup" => inner.initialized
             /\ (inner.initialized /\ "SMOOAI_ENV_CONFIG_DIR" \in DOMAIN env) =>
                   inner.config =
                       ResolvedConfig(merge_sources(FilePart, RemotePart(loadedFrom.val),
                                                    EnvPart).v, mgr.deferred))
    /\ [][(kind = "ConfigManager" /\ inner.initialized /\ epoch' = epoch) =>
             /\ loadLog' \in {loadLog, Append(loadLog, "evict")}
             /\ requests' = requests
             /\ loadedFrom' = loadedFrom
             /\ inner'.initialized
             /\ inner'.config = inner.config]_vars

\* the file load and the remote fetch of the only pass failed, the remote
\* service has recovered since, and a get after a cache entry expired was
\* served without any further load or request
C39_Witness ==
    /\ kind = "ConfigManager"
    /\ FileFails
    /\ inner.initialized
    /\ \A t \in Threads : pc[t] = "idle"
    /\ epoch = 0
    /\ RemoteFailed(loadedFrom.val)
    /\ ~RemoteFailed(server)
    /\ DOMAIN remote_values(server) \cap DOMAIN inner.config # {}
    /\ Count(loadLog, "evict") = 1
    /\ FileLoads = 1
    /\ Len(requests) = 1
    /\ Cardinality(hist) >= 1

(***************************************************************************)
(* merge_replace_arrays over three values: the left fold of the manager    *)
(* and of the File Loader, and the same sources merged right to left       *)
(***************************************************************************)
\* a number and an array as the values that are not mappings
FoldLeaves == {Num(1), Arr(<<Num(2)>>)}

\* the values folded, of nesting depth at most d: key "a" may hold a mapping
RECURSIVE FoldValues(_)
FoldValues(d) ==
    IF d = 0 THEN FoldLeaves
    ELSE FoldLeaves \cup MergeObjects(FoldValues(d - 1), {Num(1)})

\* a caller holding a lowest-precedence value and two sources to lay over it
FoldInit ==
    /\ arg \in FoldValues(MergeDepth) \X FoldValues(MergeDepth) \X FoldValues(MergeDepth)
    /\ mTarget = arg[1]
    /\ local = <<arg[2], arg[3]>>
    /\ mSource = None
    /\ mResult = None
    /\ client = None
    /\ stored = EmptyMap
    /\ fileResult = None
    /\ kind = "merge_fold"
    /\ mgr = None
    /\ env = EmptyMap
    /\ server = SrvDown
    /\ pc = <<>>
    /\ fs = FileSystem
    /\ dirCache = None
    /\ now = 0
    /\ inner = ManagerInner_new
    /\ linner = Inner_new
    /\ lock = "free"
    /\ calls = 0
    /\ epoch = 0
    /\ updates = 0
    /\ loadLog = <<>>
    /\ requests = <<>>
    /\ loadedFrom = None
    /\ hist = {}

\* one step of the left fold: merged = merge_replace_arrays(&merged, &next)
FoldStep ==
    /\ kind = "merge_fold"
    /\ local # <<>>
    /\ mTarget' = merge_replace_arrays(mTarget, Head(local))
    /\ local' = Tail(local)
    /\ UNCHANGED <<mSource, mResult, client, stored, fileResult, kind, mgr, env, fs, server,
                   dirCache, now, inner, linner, lock, pc, arg, calls, epoch, updates,
                   loadLog, requests, loadedFrom, hist>>

\* the two higher-precedence sources merged with each other first
PreMerge ==
    /\ kind = "merge_fold"
    /\ mSource = None
    /\ mSource' = Some(merge_replace_arrays(arg[2], arg[3]))
    /\ UNCHANGED <<mTarget, mResult, client, stored, fileResult, kind, mgr, env, fs, server,
                   dirCache, now, inner, linner, lock, pc, arg, local, calls, epoch,
                   updates, loadLog, requests, loadedFrom, hist>>

\* the pre-merged sources laid over the lowest-precedence value
ApplyPreMerged ==
    /\ kind = "merge_fold"
    /\ mSource # None
    /\ mResult = None
    /\ mResult' = Some(merge_replace_arrays(arg[1], mSource.val))
    /\ UNCHANGED <<mTarget, mSource, client, stored, fileResult, kind, mgr, env, fs, server,
                   dirCache, now, inner, linner, lock, pc, arg, local, calls, epoch,
                   updates, loadLog, requests, loadedFrom, hist>>

FoldNext ==
    \/ FoldStep
    \/ PreMerge
    \/ ApplyPreMerged

FoldSpec == FoldInit /\ [][FoldNext]_vars

\* both computations over the three values have finished
FoldDone == kind = "merge_fold" /\ local = <<>> /\ mResult # None

\* b holds a mapping at every path at which both a and c hold mappings
RECURSIVE MappingBetween(_, _, _)
MappingBetween(a, b, c) ==
    (a.t = "obj" /\ c.t = "obj") =>
        /\ b.t = "obj"
        /\ \A key \in DOMAIN a.v \cap DOMAIN b.v \cap DOMAIN c.v :
              MappingBetween(a.v[key], b.v[key], c.v[key])

\* C40 as stated: for all values a, b and c, the left fold
\* merge(merge(a, b), c) equals merge(a, merge(b, c)).
C40_Associative ==
    FoldDone => mTarget = mResult.val

\* C40 amended: merge(merge(a, b), c) equals merge(a, merge(b, c)) whenever b
\* holds a mapping at every path at which both a and c hold mappings; and
\* when a and c are mappings and b is not, the left fold returns c alone
\* while the pre-merged form returns merge(a, c).
C40_AssociativeBetweenMappings ==
    FoldDone =>
        /\ MappingBetween(arg[1], arg[2], arg[3]) => mTarget = mResult.val
        /\ (arg[1].t = "obj" /\ arg[2].t # "obj" /\ arg[3].t = "obj") =>
              /\ mTarget = arg[3]
              /\ mResult.val = merge_replace_arrays(arg[1], arg[3])

\* three mappings that all hold a mapping under "a" were merged both ways
\* and the result took an entry from each of them
C40_Witness ==
    /\ FoldDone
    /\ \A i \in 1..3 : arg[i].t = "obj" /\ "a" \in DOMAIN arg[i].v /\ arg[i].v["a"].t = "obj"
    /\ arg[1].v["a"].v = [k \in {"a"} |-> Arr(<<Num(2)>>)]
    /\ arg[2].v["a"].v = [k \in {"b"} |-> Num(1)]
    /\ arg[3].v["a"].v = [k \in {"a"} |-> Num(1)]
    /\ "b" \in DOMAIN arg[1].v /\ "b" \notin DOMAIN arg[3].v
    /\ mTarget = mResult.val
    /\ mTarget.v["a"].v = [k \in {"a", "b"} |-> Num(1)]

====
